---- MODULE Spec2Model ----
(***************************************************************************)
(* Model of the portfolio-tracker frontend: the derived-holdings           *)
(* calculator and sort state of HoldingsTable, the dashboard summary, the  *)
(* 401 branch of the HTTP client's response interceptor and the portfolio  *)
(* mutation hooks' cache invalidation.                                     *)
(*                                                                         *)
(* JavaScript values are modelled as follows.  An optional field           *)
(* (undefined / null / present) is None (the empty tuple) or Some(v).      *)
(* Money and share amounts are integers.  The only division in the code    *)
(* (gain / book value) yields a JS number modelled as an exact fraction    *)
(* in lowest terms, or NaN / +-Infinity when the divisor is 0.  Ticker     *)
(* symbols are tuples of one-character strings.                            *)
(***************************************************************************)
EXTENDS Integers, Sequences, FiniteSets, TLC

VARIABLES
    holdings,        \* DashboardPage: `data: holdings = []`, the prop of HoldingsTable
    enriched,        \* HoldingsTable: useMemo enrichedHoldings
    rows,            \* HoldingsTable: useMemo sortedHoldings
    summary,         \* DashboardPage: useMemo summary
    sortField,       \* HoldingsTable: useState<SortField>
    sortDirection,   \* HoldingsTable: useState<SortDirection>
    token,           \* localStorage[STORAGE_KEYS.AUTH_TOKEN]
    userRecord,      \* localStorage[STORAGE_KEYS.USER]
    pathname,        \* window.location.pathname of the loaded document
    inFlight,        \* requests sent by the document and not yet answered
    redirects,       \* assignments window.location.href = "/login" of the document
    navigationPending, \* a navigation started by such an assignment has not committed
    lastError,       \* the ApiError the response interceptor rejected with last
    lastFailure,     \* what the error handler was handed last: the AxiosError's code and response
    portfolios,      \* backend: the ids of the user's portfolios
    defaultId,       \* backend: the portfolio flagged isDefault, if any
    cache,           \* QueryClient: the state of each portfolio query key
    lastWrite,       \* the portfolio mutation whose onSuccess ran in the last step
    lookup,          \* the last findHoldingBySecurityId call: its arguments, fetch outcome and result
    mutations,       \* per mutation hook in use: status, requests sent, failed attempts, surfaced error
    queryData,       \* per read key: "absent", "fresh" or "stale" cached data
    observers,       \* per read key: mounted components reading it
    fetches,         \* requests of the read hooks not yet settled, in the order sent
    query,           \* SecuritySearchCombobox: useState query (the input's text)
    results,         \* SecuritySearchCombobox: useState results
    isOpen,          \* SecuritySearchCombobox: useState isOpen
    selectedIndex,   \* SecuritySearchCombobox: useState selectedIndex
    selected,        \* the calls of the combobox's onSelect prop made by the last step: their arguments
    searchData,      \* cached data of the search keys, per query text
    searching,       \* query texts whose search request is in flight
    user,            \* AuthProvider: useState user
    isLoading,       \* AuthProvider: useState isLoading
    authInit,        \* what initializeAuth did on mount, "pending" before it ran
    routeView,       \* the last render of ProtectedRoute, with the context values it read
    hookCalls,       \* per read hook: the arguments its mounted component passes, if mounted
    hookStatus,      \* per read hook and arguments: "idle", "fetching" (request in flight) or "error"
    defaultQuery     \* useGetDefaultPortfolio: its fetch status, the list last fetched and its data

tableVars == <<holdings, enriched, rows, summary, sortField, sortDirection>>
clientVars == <<token, userRecord, pathname, inFlight, redirects,
                navigationPending, lastError, lastFailure>>
cacheVars == <<portfolios, defaultId, cache, lastWrite>>
lookupVars == <<lookup>>
mutationVars == <<mutations>>
queryVars == <<queryData, observers, fetches>>
searchVars == <<query, results, isOpen, selectedIndex, selected, searchData, searching>>
authVars == <<user, isLoading, authInit, routeView>>
hookVars == <<hookCalls, hookStatus, defaultQuery>>
appVars == <<lookupVars, mutationVars, queryVars, searchVars, authVars, hookVars>>
vars == <<tableVars, clientVars, cacheVars, appVars>>

\* ------------------------------------------------------------------------
\* Bounds of the model
\* ------------------------------------------------------------------------
MaxHoldings == 2
MaxRows == 3
MaxInFlight == 3
MaxFetched == 2
MaxObservers == 2
MaxFetches == 3
MaxResults == 2

\* ------------------------------------------------------------------------
\* JavaScript values
\* ------------------------------------------------------------------------
None == <<>>
Some(v) == <<v>>

\* x ?? d
Coalesce(x, d) == IF x = None THEN d ELSE x[1]

RECURSIVE Gcd(_, _)
Gcd(a, b) == IF b = 0 THEN a ELSE Gcd(b, a % b)

Abs(n) == IF n < 0 THEN -n ELSE n

\* A finite JS number n/d (d > 0 after normalisation), in lowest terms.
Frac(n, d) ==
    LET s == IF d < 0 THEN -1 ELSE 1
        g == Gcd(Abs(n), Abs(d))
    IN  [kind |-> "finite", num |-> (s * n) \div g, den |-> (s * d) \div g]

NaN == [kind |-> "NaN", num |-> 0, den |-> 0]
PosInfinity == [kind |-> "Infinity", num |-> 1, den |-> 0]
NegInfinity == [kind |-> "Infinity", num |-> -1, den |-> 0]
Zero == Frac(0, 1)

\* n / d on JS numbers with integer operands
JsDivide(n, d) ==
    IF d # 0 THEN Frac(n, d)
    ELSE IF n = 0 THEN NaN
    ELSE IF n > 0 THEN PosInfinity
    ELSE NegInfinity

IsFiniteNumber(x) == x.kind = "finite"

Sign(n) == IF n < 0 THEN -1 ELSE IF n > 0 THEN 1 ELSE 0

\* The sign of a - b for two JS numbers; NaN (which Array.prototype.sort
\* treats as +0) gives 0.
SubtractSign(a, b) ==
    IF a.kind = "NaN" \/ b.kind = "NaN" THEN 0
    ELSE IF a.kind = "Infinity" /\ b.kind = "Infinity" THEN Sign(a.num - b.num)
    ELSE IF a.kind = "Infinity" THEN a.num
    ELSE IF b.kind = "Infinity" THEN -b.num
    ELSE Sign(a.num * b.den - b.num * a.den)

\* ------------------------------------------------------------------------
\* Ticker symbols and String.prototype.localeCompare
\* ------------------------------------------------------------------------
Alphabet == <<"/", "A", "F", "L", "M", "N", "P", "S", "T">>

CharRank(c) == CHOOSE i \in 1..Len(Alphabet) : Alphabet[i] = c

RECURSIVE LocaleCompare(_, _)
LocaleCompare(a, b) ==
    IF a = <<>> /\ b = <<>> THEN 0
    ELSE IF a = <<>> THEN -1
    ELSE IF b = <<>> THEN 1
    ELSE IF CharRank(Head(a)) < CharRank(Head(b)) THEN -1
    ELSE IF CharRank(Head(a)) > CharRank(Head(b)) THEN 1
    ELSE LocaleCompare(Tail(a), Tail(b))

SymNA == <<"N", "/", "A">>
SymAAPL == <<"A", "A", "P", "L">>
SymMSFT == <<"M", "S", "F", "T">>

\* ------------------------------------------------------------------------
\* Holdings as the backend may return them: the nested security may be
\* absent, and the flat HoldingDto fields (symbol, currentPrice,
\* currentValue, totalCost, unrealizedGainLoss) may be absent.
\* ------------------------------------------------------------------------
SecurityVariants ==
    { None,
      Some([symbol |-> SymAAPL, currentPrice |-> Some(120)]),
      Some([symbol |-> SymAAPL, currentPrice |-> None]) }

SharesValues == {None, Some(5), Some(10)}
CostValues == {None, Some(50), Some(100)}
FlatPrices == {None, Some(40)}

\* A holding without the flat fields, or with the flat HoldingDto fields the
\* backend derives from shares, average cost and its price p.
MkHolding(sec, sh, ac, fp) ==
    [ security |-> sec,
      totalShares |-> sh,
      averageCost |-> ac,
      symbol |-> IF fp = None THEN None ELSE Some(SymMSFT),
      currentPrice |-> fp,
      currentValue |-> IF fp = None THEN None
                       ELSE Some(Coalesce(sh, 0) * fp[1]),
      totalCost |-> IF fp = None THEN None
                    ELSE Some(Coalesce(sh, 0) * Coalesce(ac, 0)),
      unrealizedGainLoss |-> IF fp = None THEN None
                             ELSE Some(Coalesce(sh, 0) * fp[1]
                                       - Coalesce(sh, 0) * Coalesce(ac, 0)) ]

HoldingDomain ==
    { MkHolding(sec, sh, ac, fp) :
        sec \in SecurityVariants, sh \in SharesValues,
        ac \in CostValues, fp \in FlatPrices }

\* The holdings the sort specification draws from: those with a share count
\* and one average cost, whose price comes from one place at most.
SortDomain ==
    { h \in HoldingDomain :
        /\ h.totalShares # None
        /\ h.averageCost = Some(50)
        /\ (h.security = None \/ h.currentPrice = None) }

ListsOf(S, n) == UNION { [1..k -> S] : k \in 0..n }

\* ------------------------------------------------------------------------
\* HoldingsTable: enrichedHoldings
\* ------------------------------------------------------------------------

\* (holding as any).symbol || "N/A"
symbolOrDefault(holding) ==
    IF holding.symbol = None \/ holding.symbol = Some(<<>>)
    THEN SymNA ELSE holding.symbol[1]

\* holding.security || { ..., symbol, currentPrice: holding.currentPrice }
securityOf(holding) ==
    IF holding.security # None THEN holding.security[1]
    ELSE [symbol |-> symbolOrDefault(holding),
          currentPrice |-> holding.currentPrice]

\* Mutant: the flat price of the holding is not consulted.
currentPriceOf_NestedOnly(holding) ==
    IF holding.security = None THEN 0
    ELSE Coalesce(holding.security[1].currentPrice, 0)

\* security.currentPrice ?? holding.currentPrice ?? 0
currentPriceOf(holding) ==
    Coalesce(securityOf(holding).currentPrice, Coalesce(holding.currentPrice, 0))

marketValueOf(holding) ==
    Coalesce(holding.totalShares, 0) * currentPriceOf(holding)

\* Mutant: a holding without nested security gets book value 0.
bookValueOf_ZeroWithoutSecurity(holding) ==
    IF holding.security = None THEN 0
    ELSE Coalesce(holding.totalShares, 0) * Coalesce(holding.averageCost, 0)

bookValueOf(holding) ==
    Coalesce(holding.totalShares, 0) * Coalesce(holding.averageCost, 0)

\* Mutant: the operands of the subtraction are swapped.
unrealizedGainOf_Swapped(holding) == bookValueOf(holding) - marketValueOf(holding)

unrealizedGainOf(holding) == marketValueOf(holding) - bookValueOf(holding)

\* Mutant: the guard admits a book value of 0.
unrealizedGainPercentOf_NoZeroGuard(holding) ==
    IF bookValueOf(holding) >= 0
    THEN JsDivide(unrealizedGainOf(holding), bookValueOf(holding))
    ELSE Zero

\* bookValue > 0 ? unrealizedGain / bookValue : 0
unrealizedGainPercentOf(holding) ==
    IF bookValueOf(holding) > 0
    THEN JsDivide(unrealizedGainOf(holding), bookValueOf(holding))
    ELSE Zero

enrichHolding(holding) ==
    [ holding |-> holding,
      security |-> Some(securityOf(holding)),
      totalShares |-> holding.totalShares,
      averageCost |-> holding.averageCost,
      currentPrice |-> currentPriceOf(holding),
      marketValue |-> marketValueOf(holding),
      bookValue |-> bookValueOf(holding),
      unrealizedGain |-> unrealizedGainOf(holding),
      unrealizedGainPercent |-> unrealizedGainPercentOf(holding) ]

enrichedHoldings(hs) == [i \in 1..Len(hs) |-> enrichHolding(hs[i])]

\* The Last Price cell of a row: the formatted effective price, or "N/A"
\* (None) when security.currentPrice is undefined or null.
lastPriceCell(row) ==
    IF row.security[1].currentPrice # None THEN Some(row.currentPrice) ELSE None

\* The earlier revision of the calculator (HoldingsTable.tsx:60-110): a
\* holding without nested security gets zeros for every derived value.
enrichHoldingEarlier(holding) ==
    IF holding.security = None
    THEN [ holding |-> holding,
           security |-> Some([symbol |-> SymNA, currentPrice |-> None]),
           totalShares |-> holding.totalShares,
           averageCost |-> holding.averageCost,
           currentPrice |-> 0,
           marketValue |-> 0,
           bookValue |-> 0,
           unrealizedGain |-> 0,
           unrealizedGainPercent |-> Zero ]
    ELSE LET currentPrice == Coalesce(holding.security[1].currentPrice, 0)
             marketValue == Coalesce(holding.totalShares, 0) * currentPrice
             bookValue == Coalesce(holding.totalShares, 0)
                          * Coalesce(holding.averageCost, 0)
             unrealizedGain == marketValue - bookValue
         IN  [ holding |-> holding,
               security |-> holding.security,
               totalShares |-> holding.totalShares,
               averageCost |-> holding.averageCost,
               currentPrice |-> currentPrice,
               marketValue |-> marketValue,
               bookValue |-> bookValue,
               unrealizedGain |-> unrealizedGain,
               unrealizedGainPercent |->
                   IF bookValue > 0 THEN JsDivide(unrealizedGain, bookValue)
                   ELSE Zero ]

enrichedHoldingsEarlier(hs) ==
    [i \in 1..Len(hs) |-> enrichHoldingEarlier(hs[i])]

\* ------------------------------------------------------------------------
\* HoldingsTable: sortedHoldings
\* ------------------------------------------------------------------------
SortFields == {"symbol", "shares", "price", "cost", "value", "gain", "gainPercent"}
NumericFields == SortFields \ {"symbol"}
SortDirections == {"asc", "desc"}

\* Mutant: the case "gain" reads the market value.
numericValue_GainReadsValue(a, field) ==
    CASE field = "shares" -> Frac(Coalesce(a.totalShares, 0), 1)
      [] field = "price" -> Frac(a.currentPrice, 1)
      [] field = "cost" -> Frac(Coalesce(a.averageCost, 0), 1)
      [] field = "value" -> Frac(a.marketValue, 1)
      [] field = "gain" -> Frac(a.marketValue, 1)
      [] field = "gainPercent" -> a.unrealizedGainPercent

\* The switch (sortField) of the comparator, for a numeric field.
numericValue(a, field) ==
    CASE field = "shares" -> Frac(Coalesce(a.totalShares, 0), 1)
      [] field = "price" -> Frac(a.currentPrice, 1)
      [] field = "cost" -> Frac(Coalesce(a.averageCost, 0), 1)
      [] field = "value" -> Frac(a.marketValue, 1)
      [] field = "gain" -> Frac(a.unrealizedGain, 1)
      [] field = "gainPercent" -> a.unrealizedGainPercent

\* a.security?.symbol ?? ""
symbolValue(a) == IF a.security = None THEN <<>> ELSE a.security[1].symbol

\* Mutant: the comparator ignores the direction.
compareHoldings_IgnoreDirection(a, b, field, direction) ==
    IF field = "symbol"
    THEN LocaleCompare(symbolValue(a), symbolValue(b))
    ELSE SubtractSign(numericValue(a, field), numericValue(b, field))

\* The comparator handed to Array.prototype.sort: the sign of its result.
compareHoldings(a, b, field, direction) ==
    IF field = "symbol"
    THEN IF direction = "asc"
         THEN LocaleCompare(symbolValue(a), symbolValue(b))
         ELSE LocaleCompare(symbolValue(b), symbolValue(a))
    ELSE IF field \in NumericFields
    THEN IF direction = "asc"
         THEN SubtractSign(numericValue(a, field), numericValue(b, field))
         ELSE SubtractSign(numericValue(b, field), numericValue(a, field))
    ELSE 0

\* Array.prototype.sort is stable (ECMAScript 2019): x, which follows the
\* elements of the sorted prefix s in the input, goes before the first
\* element that compares greater than it.
RECURSIVE insertStable(_, _, _, _)
insertStable(x, s, field, direction) ==
    IF s = <<>> THEN <<x>>
    ELSE IF compareHoldings(Head(s), x, field, direction) > 0 THEN <<x>> \o s
    ELSE <<Head(s)>> \o insertStable(x, Tail(s), field, direction)

RECURSIVE stableSort(_, _, _, _)
stableSort(done, todo, field, direction) ==
    IF todo = <<>> THEN done
    ELSE stableSort(insertStable(Head(todo), done, field, direction),
                    Tail(todo), field, direction)

\* [...enrichedHoldings].sort(comparator)
sortedHoldings(es, field, direction) == stableSort(<<>>, es, field, direction)

\* Mutant: a click on the active field always selects descending.
handleSortResult_StuckDescending(field, curField, curDirection) ==
    IF curField = field
    THEN [sortField |-> curField, sortDirection |-> "desc"]
    ELSE [sortField |-> field, sortDirection |-> "asc"]

\* Mutant: a newly selected field keeps the current direction.
handleSortResult_KeepsDirection(field, curField, curDirection) ==
    IF curField = field
    THEN [sortField |-> curField,
          sortDirection |-> IF curDirection = "asc" THEN "desc" ELSE "asc"]
    ELSE [sortField |-> field, sortDirection |-> curDirection]

\* handleSort(field): the next [sortField, sortDirection]
handleSortResult(field, curField, curDirection) ==
    IF curField = field
    THEN [sortField |-> curField,
          sortDirection |-> IF curDirection = "asc" THEN "desc" ELSE "asc"]
    ELSE [sortField |-> field, sortDirection |-> "asc"]

\* ------------------------------------------------------------------------
\* DashboardPage: summary
\* ------------------------------------------------------------------------
\* hs.reduce((sum, h) => sum + term(h), 0), given the sequence of the terms
RECURSIVE SumSeq(_)
SumSeq(s) == IF s = <<>> THEN 0 ELSE Head(s) + SumSeq(Tail(s))

currentValueTerm(h) == Coalesce(h.currentValue, 0)
totalCostTerm(h) == Coalesce(h.totalCost, 0)
unrealizedGainLossTerm(h) == Coalesce(h.unrealizedGainLoss, 0)
totalSharesTerm(h) == Coalesce(h.totalShares, 0)

\* Mutant: only a holding without security object counts as missing a price.
flatPriceMissing_OnlyWithoutSecurity(h) == h.security = None /\ h.currentPrice = None

\* (h as any).currentPrice === undefined || (h as any).currentPrice === null
flatPriceMissing(h) == h.currentPrice = None

\* totalCost > 0 ? totalGain / totalCost : 0
totalGainPercentOf(totalGain, totalCost) ==
    IF totalCost > 0 THEN JsDivide(totalGain, totalCost) ELSE Zero

EmptySummary ==
    [ threw |-> FALSE, totalValue |-> 0, totalCost |-> 0, totalGain |-> 0,
      totalGainPercent |-> Zero, hasMissingPrices |-> FALSE,
      totalShares |-> 0, holdingsCount |-> 0 ]

\* The summary of the current DashboardPage: it sums the backend's flat
\* per-holding values.  No step of it dereferences an optional object.
computeSummary(hs) ==
    IF Len(hs) = 0 THEN EmptySummary
    ELSE LET totalValue == SumSeq([i \in 1..Len(hs) |-> currentValueTerm(hs[i])])
             totalCost == SumSeq([i \in 1..Len(hs) |-> totalCostTerm(hs[i])])
             totalGain == SumSeq([i \in 1..Len(hs) |-> unrealizedGainLossTerm(hs[i])])
         IN  [ threw |-> FALSE,
               totalValue |-> totalValue,
               totalCost |-> totalCost,
               totalGain |-> totalGain,
               totalGainPercent |-> totalGainPercentOf(totalGain, totalCost),
               hasMissingPrices |-> \E i \in 1..Len(hs) : flatPriceMissing(hs[i]),
               totalShares |-> SumSeq([i \in 1..Len(hs) |-> totalSharesTerm(hs[i])]),
               holdingsCount |-> Len(hs) ]

\* Reading h.security.currentPrice: a TypeError when h.security is absent.
readNestedPrice(h) ==
    IF h.security = None THEN [threw |-> TRUE, value |-> None]
    ELSE [threw |-> FALSE, value |-> h.security[1].currentPrice]

\* One step of the earlier revision's totalValue reduce (part_005:59-79).
totalValueStepEarlier(acc, h) ==
    IF acc.threw THEN acc
    ELSE IF h.security = None
    THEN [acc EXCEPT !.hasMissingPrices = TRUE]
    ELSE LET price == readNestedPrice(h)
         IN  [ threw |-> price.threw,
               sum |-> acc.sum + Coalesce(h.totalShares, 0) * Coalesce(price.value, 0),
               hasMissingPrices |-> acc.hasMissingPrices \/ price.value = None ]

RECURSIVE totalValueEarlier(_, _)
totalValueEarlier(hs, n) ==
    IF n = 0 THEN [threw |-> FALSE, sum |-> 0, hasMissingPrices |-> FALSE]
    ELSE totalValueStepEarlier(totalValueEarlier(hs, n - 1), hs[n])

bookValueTerm(h) == Coalesce(h.totalShares, 0) * Coalesce(h.averageCost, 0)

\* The summary of the earlier DashboardPage (part_005:43-92).
computeSummaryEarlier(hs) ==
    IF Len(hs) = 0 THEN EmptySummary
    ELSE LET tv == totalValueEarlier(hs, Len(hs))
             totalCost == SumSeq([i \in 1..Len(hs) |-> bookValueTerm(hs[i])])
             totalGain == tv.sum - totalCost
         IN  [ threw |-> tv.threw,
               totalValue |-> tv.sum,
               totalCost |-> totalCost,
               totalGain |-> totalGain,
               totalGainPercent |-> totalGainPercentOf(totalGain, totalCost),
               hasMissingPrices |-> tv.hasMissingPrices,
               totalShares |-> 0,
               holdingsCount |-> Len(hs) ]

\* ------------------------------------------------------------------------
\* HTTP client (api/client): interceptors and token helpers
\* ------------------------------------------------------------------------
LoginPath == <<"/", "l", "o", "g", "i", "n">>
RegisterPath == <<"/", "r", "e", "g", "i", "s", "t", "e", "r">>
DashboardPath == <<"/", "d", "a", "s", "h", "b", "o", "a", "r", "d">>
RoutePaths == {LoginPath, RegisterPath, DashboardPath}
HomePath == <<"/">>
\* ROUTES.PORTFOLIOS: a path App declares no route for
PortfoliosPath == <<"/", "p", "o", "r", "t", "f", "o", "l", "i", "o", "s">>
AppPaths == RoutePaths \cup {HomePath, PortfoliosPath}

\* Mutant: the catch-all route sends to the root path.
routeElement_UnmatchedToHome(path) ==
    CASE path = LoginPath -> [element |-> "LoginPage", to |-> None]
      [] path = RegisterPath -> [element |-> "RegisterPage", to |-> None]
      [] path = DashboardPath -> [element |-> "ProtectedRoute", to |-> None]
      [] path = HomePath -> [element |-> "Navigate", to |-> Some(DashboardPath)]
      [] OTHER -> [element |-> "Navigate", to |-> Some(HomePath)]

\* <Routes>: the element of the route that matches the path.
routeElement(path) ==
    CASE path = LoginPath -> [element |-> "LoginPage", to |-> None]
      [] path = RegisterPath -> [element |-> "RegisterPage", to |-> None]
      [] path = DashboardPath -> [element |-> "ProtectedRoute", to |-> None]
      [] path = HomePath -> [element |-> "Navigate", to |-> Some(DashboardPath)]
      [] OTHER -> [element |-> "Navigate", to |-> Some(DashboardPath)]

Tokens == {"jwt1", "jwt2"}

\* String.prototype.includes
Includes(str, sub) ==
    \E i \in 1..(Len(str) - Len(sub) + 1) :
        SubSeq(str, i, i + Len(sub) - 1) = sub

\* Mutant: the header is attached without testing the token; a missing
\* token is interpolated as "null".
authorizationHeader_NoTokenTest(tok) ==
    Some(<<"Bearer", IF tok # None THEN tok[1] ELSE "null">>)

\* Request interceptor: the Authorization header of a request sent now.
authorizationHeader(tok) ==
    IF tok # None THEN Some(<<"Bearer", tok[1]>>) ELSE None

\* What comes back for a request: no response at all (network failure,
\* timeout), or a status with or without a body carrying the backend's
\* message and field errors.
ResponseStatuses == {200, 400, 401, 403, 404, 409, 500, 503}
ResponseBodies ==
    { None,
      Some([message |-> Some("backend message"), errors |-> Some("field errors")]),
      Some([message |-> Some(""), errors |-> None]) }
Responses ==
    {None} \cup { Some([status |-> st, data |-> b]) :
                    st \in ResponseStatuses, b \in ResponseBodies }

IsSuccess(response) == response # None /\ response[1].status = 200

\* error.response.data?.message || fallback
messageOr(response, fallback) ==
    IF \/ response[1].data = None
       \/ response[1].data[1].message = None
       \/ response[1].data[1].message = Some("")
    THEN fallback ELSE response[1].data[1].message[1]

\* The ApiError rejected for an error that has a response (the branches of
\* the error handler after the network branch).  `data` is set by the last
\* branch only: the raw response body.
responseErrorOf(response) ==
    LET st == response[1].status
    IN  IF st = 401
        THEN [message |-> "Your session has expired. Please log in again.",
              statusCode |-> Some(401), errors |-> None, data |-> None]
        ELSE IF st = 403
        THEN [message |-> "You do not have permission to perform this action.",
              statusCode |-> Some(403), errors |-> None, data |-> None]
        ELSE IF st = 404
        THEN [message |-> messageOr(response, "Resource not found."),
              statusCode |-> Some(404), errors |-> None, data |-> None]
        ELSE IF st = 400
        THEN [message |-> messageOr(response, "Invalid request."),
              statusCode |-> Some(400),
              errors |-> IF response[1].data = None THEN None
                         ELSE response[1].data[1].errors,
              data |-> None]
        ELSE IF st >= 500
        THEN [message |-> "Server error. Please try again later.",
              statusCode |-> Some(st), errors |-> None, data |-> None]
        ELSE [message |-> messageOr(response, "Request failed with status code"),
              statusCode |-> Some(st), errors |-> None,
              data |-> response[1].data]

\* Mutant: no branch for an error without a response; the last branch's
\* error.response?.status is then undefined.
apiErrorOf_NoNetworkBranch(response) ==
    IF response = None
    THEN [message |-> "Network Error", statusCode |-> None,
          errors |-> None, data |-> None]
    ELSE responseErrorOf(response)

\* The ApiError the error handler of the response interceptor rejects with.
apiErrorOf(response) ==
    IF response = None
    THEN [message |-> "Network error - please check your internet connection.",
          statusCode |-> Some(0), errors |-> None, data |-> None]
    ELSE responseErrorOf(response)

\* Mutant: the redirect is issued on the login page as well.
shouldRedirect_Always(path) == TRUE

\* !window.location.pathname.includes("/login")
shouldRedirect(path) == ~Includes(path, LoginPath)

RemoveAt(s, i) == SubSeq(s, 1, i - 1) \o SubSeq(s, i + 1, Len(s))

\* ------------------------------------------------------------------------
\* Portfolio query keys and mutation hooks (api/hooks/usePortfolios)
\* ------------------------------------------------------------------------
UserId == "u1"
PortfolioIds == {"p1", "p2"}

portfolioKeysAll == <<"portfolios">>
portfolioKeysLists == portfolioKeysAll \o <<"list">>
portfolioKeysList(userId) == portfolioKeysLists \o <<userId>>
portfolioKeysDetails == portfolioKeysAll \o <<"detail">>
portfolioKeysDetail(userId, portfolioId) ==
    portfolioKeysDetails \o <<userId, portfolioId>>
portfolioKeysDefault(userId) == portfolioKeysAll \o <<"default", userId>>

\* The query keys the read hooks of the user can put into the cache.
CacheKeys ==
    {portfolioKeysList(UserId), portfolioKeysDefault(UserId)}
      \cup {portfolioKeysDetail(UserId, p) : p \in PortfolioIds}

IsPrefix(q, k) == Len(q) <= Len(k) /\ SubSeq(k, 1, Len(q)) = q

\* queryClient.invalidateQueries({ queryKey }): every query whose key starts
\* with queryKey is marked invalidated.
invalidateQueries(c, queryKey) ==
    [k \in DOMAIN c |->
        IF IsPrefix(queryKey, k) /\ c[k] = "fresh" THEN "stale" ELSE c[k]]

\* onSuccess of useCreatePortfolio, useDeletePortfolio, useSetDefaultPortfolio
invalidateListAndDefault(c, userId) ==
    invalidateQueries(invalidateQueries(c, portfolioKeysList(userId)),
                      portfolioKeysDefault(userId))

\* onSuccess of useUpdatePortfolio
invalidateListDetailAndDefault(c, userId, portfolioId) ==
    invalidateQueries(
        invalidateQueries(invalidateQueries(c, portfolioKeysList(userId)),
                          portfolioKeysDetail(userId, portfolioId)),
        portfolioKeysDefault(userId))

\* The portfolios whose isDefault flag differs between two default settings.
FlagChanged(before, after) ==
    {p \in PortfolioIds : (before = Some(p)) # (after = Some(p))}

\* ------------------------------------------------------------------------
\* Initial state and actions
\* ------------------------------------------------------------------------
\* Holdings endpoints (api/endpoints/holdings): findHoldingBySecurityId
\* ------------------------------------------------------------------------
HoldingIds == {"h1", "h2"}
SecurityIds == {"s1", "s2"}
SearchedSecurityIds == SecurityIds \cup {"s3"}

\* The holdings a portfolio can have on the backend, as far as the lookup
\* reads them: id and securityId.
FetchedHoldings == [id : HoldingIds, securityId : SecurityIds]

\* What `await getPortfolioHoldings(portfolioId, userId)` does: it yields
\* response.data, or throws the ApiError the response interceptor rejected
\* with.
FetchOutcomes ==
    { [ok |-> TRUE, data |-> l, response |-> Some([status |-> 200, data |-> None])] :
        l \in ListsOf(FetchedHoldings, MaxFetched) }
    \cup { [ok |-> FALSE, error |-> apiErrorOf(r), response |-> r] :
             r \in { x \in Responses : ~IsSuccess(x) } }

\* holdings.find((h) => h.securityId === securityId): the first match
RECURSIVE find(_, _)
find(hs, securityId) ==
    IF hs = <<>> THEN None
    ELSE IF Head(hs).securityId = securityId THEN Some(Head(hs))
    ELSE find(Tail(hs), securityId)

\* The settled promise of findHoldingBySecurityId: `holding || null`
\* after the fetch, null from the catch block.
findHoldingBySecurityId(outcome, securityId) ==
    IF outcome.ok
    THEN [kind |-> "resolved", value |-> find(outcome.data, securityId)]
    ELSE [kind |-> "resolved", value |-> None]

\* ------------------------------------------------------------------------
\* queryClient defaults (lib/queryClient): mutations
\* ------------------------------------------------------------------------
\* defaultOptions.mutations.retry
MutationRetry == 1

\* The mutation hooks a page can have in use at a time.
MutationIds == {"create", "update", "delete"}

\* The errors a mutation's request can be rejected with.
MutationErrors == { apiErrorOf(None), apiErrorOf(Some([status |-> 500, data |-> None])) }

IdleMutation == [status |-> "idle", sent |-> 0, failures |-> 0, error |-> None]

\* Mutant: the retry count is compared with <=, one retry too many.
shouldRetry_OffByOne(failureCount) == failureCount <= MutationRetry

\* `retry: n`: a failed attempt is retried while fewer than n attempts
\* have failed before it.
shouldRetry(failureCount) == failureCount < MutationRetry

\* ------------------------------------------------------------------------
\* Read hooks (useQuery): one fetch per query key
\* ------------------------------------------------------------------------
\* defaultOptions.queries.retry
QueryRetry == 1

\* The keys every portfolio write invalidates; the dashboard and the
\* portfolio pages read them.
ReadKeys == {portfolioKeysList(UserId), portfolioKeysDefault(UserId)}

NewFetch(key) == [key |-> key, abandoned |-> FALSE, waiting |-> FALSE, failures |-> 0]

\* Mutant: a read never finds the fetch that is already running for its key.
hasCurrentFetch_Never(fs, key) == FALSE

\* The query of `key` is fetching: a fetch of it was started and neither
\* settled nor abandoned.
hasCurrentFetch(fs, key) ==
    \E i \in 1..Len(fs) : fs[i].key = key /\ ~fs[i].abandoned

\* The running fetch of `key` is cancelled silently.  The query functions
\* do not pass the abort signal on, so a request that was sent stays in
\* flight and its response is dropped; a fetch waiting for its retry ends.
RECURSIVE abandonCurrent(_, _)
abandonCurrent(fs, key) ==
    IF fs = <<>> THEN <<>>
    ELSE LET f == Head(fs)
             rest == abandonCurrent(Tail(fs), key)
         IN  IF f.key = key /\ ~f.abandoned
             THEN IF f.waiting THEN rest
                  ELSE <<[f EXCEPT !.abandoned = TRUE]>> \o rest
             ELSE <<f>> \o rest

\* A read of `key` asks for a fetch: it joins the fetch that is running,
\* unless it is a refetch (cancelRefetch) of a query that has data, which
\* abandons the running fetch and starts the latest.
fetchQuery(fs, data, key, cancelRefetch) ==
    IF hasCurrentFetch(fs, key)
    THEN IF data[key] # "absent" /\ cancelRefetch
         THEN Append(abandonCurrent(fs, key), NewFetch(key))
         ELSE fs
    ELSE Append(fs, NewFetch(key))

\* queryClient.invalidateQueries({ queryKey: key }): the data is stale and a
\* query with mounted readers is refetched.
invalidateAndRefetch(fs, data, obs, key) ==
    IF obs[key] > 0 THEN fetchQuery(fs, data, key, TRUE) ELSE fs

shouldRetryQuery(failureCount) == failureCount < QueryRetry

\* ------------------------------------------------------------------------
\* SecuritySearchCombobox and useSecuritySearch
\* ------------------------------------------------------------------------
\* The texts typed into the search input.
SearchTexts == { <<>>, <<"a">>, <<"a", "a">>, <<"a", "b">> }

\* enabled: enabled && query.length >= 2
searchEnabled(q) == Len(q) >= 2

\* A response to searchSecurities(q, 10): `count` securities found for q.
SearchPayload(q, count) == [for |-> q, count |-> count]

\* Mutant: a response is cached under the key of the input's present text.
responseKey_CurrentQuery(requestText, currentQuery) == currentQuery

\* The key a response is cached under: securitiesKeys.search(query, limit)
\* of the render that started the request.
responseKey(requestText, currentQuery) == requestText

\* data of useSecuritySearch(q, 10): the cached data of q's key.
searchResultsOf(data, q) ==
    IF data[q] = None THEN None ELSE Some(data[q][1].payload)

\* The effect on [searchResults, query]: what it sets results and isOpen to.
resultsEffect(data, q) ==
    LET searchResults == searchResultsOf(data, q)
    IN  IF searchResults # None /\ Len(q) >= 2
        THEN [results |-> searchResults, isOpen |-> searchResults[1].count > 0]
        ELSE [results |-> None, isOpen |-> FALSE]

\* The keys pressed in the input; "a" stands for every other key.
Keys == {"ArrowDown", "ArrowUp", "Enter", "Escape", "a"}

\* The component's state a key handler reads and sets.
ComboState(q, rs, open, index) ==
    [query |-> q, results |-> rs, isOpen |-> open, selectedIndex |-> index]

\* results[index]: the security of that row, undefined outside the list
itemAt(rs, index) ==
    IF rs # None /\ index >= 0 /\ index < rs[1].count
    THEN Some([for |-> rs[1].for, index |-> index])
    ELSE None

\* Mutant: the highlight survives a selection.
handleSelect_KeepsIndex(st, security) ==
    [state |-> ComboState(<<>>, None, FALSE, st.selectedIndex), calls |-> <<security>>]

\* handleSelect(security): the state it leaves and the onSelect calls it makes.
handleSelect(st, security) ==
    [state |-> ComboState(<<>>, None, FALSE, -1), calls |-> <<security>>]

\* handleKeyDown(e): the state it leaves and the onSelect calls it makes.
handleKeyDown(key, st) ==
    LET length == IF st.results = None THEN 0 ELSE st.results[1].count
        same == [state |-> st, calls |-> <<>>]
    IN  IF ~st.isOpen THEN same
        ELSE CASE key = "ArrowDown" ->
                    [same EXCEPT !.state.selectedIndex =
                        IF @ < length - 1 THEN @ + 1 ELSE @]
               [] key = "ArrowUp" ->
                    [same EXCEPT !.state.selectedIndex = IF @ > 0 THEN @ - 1 ELSE -1]
               [] key = "Enter" ->
                    IF st.selectedIndex >= 0 /\ itemAt(st.results, st.selectedIndex) # None
                    THEN handleSelect(st, itemAt(st.results, st.selectedIndex)[1])
                    ELSE same
               [] key = "Escape" ->
                    [same EXCEPT !.state.isOpen = FALSE, !.state.selectedIndex = -1]
               [] OTHER -> same

\* isLoading of useSecuritySearch(q, 10): the first fetch of q's key is
\* running (fetching and no data yet).
searchIsLoading(data, running, q) == q \in running /\ data[q] = None

\* results.length
resultsLength(rs) == IF rs = None THEN 0 ELSE rs[1].count

\* The "No Results State" block is rendered.
noResultsShown(open, loading, q, rs) ==
    open /\ ~loading /\ Len(q) >= 2 /\ resultsLength(rs) = 0

\* The "Dropdown Results" block is rendered.
dropdownShown(open, rs) == open /\ resultsLength(rs) > 0

\* ------------------------------------------------------------------------
\* The read hooks and their enabled conditions (api/hooks/usePortfolios)
\* ------------------------------------------------------------------------
\* Most components that have a read hook mounted at the same time.
MaxMounted == 2

PortfolioHooks == {"useGetPortfolios", "useGetPortfolio", "useGetDefaultPortfolio"}
SecurityHooks == {"useSecuritySearch", "useSecurity", "useSecurityBySymbol"}
ReadHooks == PortfolioHooks \cup SecurityHooks

\* Identifiers as texts; <<>> is the empty string a caller passes for a
\* missing one (user?.id || "").
IdTexts == { <<>>, <<"u", "1">> }

\* Search texts of length 0, 1 and 2.
HookSearchTexts == { <<>>, <<"a">>, <<"a", "a">> }

\* The identifying parameters a hook can be called with.
HookParams(hook) ==
    CASE hook = "useGetPortfolio" -> {<<u, p>> : u \in IdTexts, p \in IdTexts}
      [] hook = "useSecuritySearch" -> {<<q>> : q \in HookSearchTexts}
      [] OTHER -> {<<x>> : x \in IdTexts}

\* The `enabled` argument: the security hooks take one (default true).
HookFlags(hook) == IF hook \in SecurityHooks THEN BOOLEAN ELSE {TRUE}

\* The queries of the hooks: a hook and its parameters make the query key.
HookKeys == UNION {{[hook |-> h, params |-> ps] : ps \in HookParams(h)} : h \in ReadHooks}

\* !!s of a string
Truthy(s) == s # <<>>

\* Mutant: the search runs for every text its flag allows.
enabledOf_SearchAnyLength(hook, params, flag) ==
    CASE hook = "useGetPortfolio" -> Truthy(params[1]) /\ Truthy(params[2])
      [] hook = "useSecuritySearch" -> flag
      [] hook \in {"useSecurity", "useSecurityBySymbol"} -> flag /\ Truthy(params[1])
      [] OTHER -> Truthy(params[1])

\* The `enabled` option each hook passes to useQuery.
enabledOf(hook, params, flag) ==
    CASE hook = "useGetPortfolio" -> Truthy(params[1]) /\ Truthy(params[2])
      [] hook = "useSecuritySearch" -> flag /\ Len(params[1]) >= 2
      [] hook \in {"useSecurity", "useSecurityBySymbol"} -> flag /\ Truthy(params[1])
      [] OTHER -> Truthy(params[1])

\* The query a mounted hook observes.
observedKey(calls, hook) == [hook |-> hook, params |-> calls[hook][1].params]

\* The observer of a mounted hook is enabled.
observerEnabled(calls, hook) ==
    /\ calls[hook] # None
    /\ enabledOf(hook, calls[hook][1].params, calls[hook][1].enabled)

\* invalidateQueries over the queries in `matched`: those with an
\* enabled observer are fetched again, disabled ones are left alone.
refetchInvalidated(status, calls, matched) ==
    [k \in HookKeys |->
        IF /\ k \in matched
           /\ observerEnabled(calls, k.hook)
           /\ observedKey(calls, k.hook) = k
        THEN "fetching" ELSE status[k]]

\* ------------------------------------------------------------------------
\* useGetDefaultPortfolio: the query function
\* ------------------------------------------------------------------------
\* Longest list getUserPortfolios answers with.
MaxPortfolios == 3

\* The portfolios of a response: id and isDefault.
PortfolioDtos == [id : {"p1", "p2", "p3"}, isDefault : BOOLEAN]

\* portfolios.find((p) => p.isDefault): the first such element, or undefined
RECURSIVE findIsDefault(_)
findIsDefault(ps) ==
    IF ps = <<>> THEN None
    ELSE IF Head(ps).isDefault THEN Some(Head(ps))
    ELSE findIsDefault(Tail(ps))

\* portfolios[0]: undefined for the empty list
firstOf(ps) == IF Len(ps) >= 1 THEN Some(ps[1]) ELSE None

\* a || b for objects, undefined and null
JsOr(a, b) == IF a # None THEN a ELSE b

\* Mutant: the first portfolio whatever the flags.
defaultPortfolioOf_FirstOnly(ps) == JsOr(firstOf(ps), None)

\* portfolios.find((p) => p.isDefault) || portfolios[0] || null
defaultPortfolioOf(ps) == JsOr(JsOr(findIsDefault(ps), firstOf(ps)), None)

\* ------------------------------------------------------------------------
\* AuthProvider (initializeAuth) and ProtectedRoute
\* ------------------------------------------------------------------------
\* What localStorage can hold under STORAGE_KEYS.USER: nothing, the JSON
\* of a user, the JSON text null, or text that is not JSON.
SavedUsers == {None, Some("user"), Some("null"), Some("corrupt")}

\* JSON.parse(savedUser)
JsonParse(text) ==
    IF text = "corrupt" THEN [ok |-> FALSE, value |-> None]
    ELSE IF text = "null" THEN [ok |-> TRUE, value |-> None]
    ELSE [ok |-> TRUE, value |-> Some(text)]

\* Mutant: the saved user is restored whether or not a token is stored.
shouldRestore_UserOnly(tok, saved) == saved # None

\* if (token && savedUser)
shouldRestore(tok, saved) == tok # None /\ saved # None

\* The context's isAuthenticated: a user is held in auth state.
isAuthenticatedOf(u) == u # None

LoadingView == [kind |-> "loading", to |-> None, from |-> None, replace |-> FALSE]

\* Mutant: the authentication test comes before the loading test.
ProtectedRoute_AuthFirst(isAuthenticated, loading, location) ==
    IF ~isAuthenticated
    THEN [kind |-> "navigate", to |-> Some(LoginPath), from |-> Some(location),
          replace |-> TRUE]
    ELSE IF loading THEN LoadingView
    ELSE [kind |-> "children", to |-> None, from |-> None, replace |-> FALSE]

\* What ProtectedRoute returns.
ProtectedRoute(isAuthenticated, loading, location) ==
    IF loading THEN LoadingView
    ELSE IF ~isAuthenticated
    THEN [kind |-> "navigate", to |-> Some(LoginPath), from |-> Some(location),
          replace |-> TRUE]
    ELSE [kind |-> "children", to |-> None, from |-> None, replace |-> FALSE]

\* ------------------------------------------------------------------------
\* The dashboard of a signed-in user before its holdings have arrived; no
\* request has been sent and the query cache is empty.
Init ==
    /\ holdings = <<>>
    /\ enriched = <<>>
    /\ rows = <<>>
    /\ summary = EmptySummary
    /\ sortField = "symbol"
    /\ sortDirection = "asc"
    /\ token = Some("jwt1")
    /\ userRecord = Some("user")
    /\ pathname = DashboardPath
    /\ inFlight = <<>>
    /\ redirects = 0
    /\ navigationPending = FALSE
    /\ lastError = None
    /\ lastFailure = None
    /\ portfolios = {}
    /\ defaultId = None
    /\ cache = [k \in CacheKeys |-> "absent"]
    /\ lastWrite = None
    /\ lookup = None
    /\ mutations = [m \in MutationIds |-> IdleMutation]
    /\ queryData = [k \in ReadKeys |-> "absent"]
    /\ observers = [k \in ReadKeys |-> 0]
    /\ fetches = <<>>
    /\ query = <<>>
    /\ results = None
    /\ isOpen = FALSE
    /\ selectedIndex = -1
    /\ selected = <<>>
    /\ searchData = [q \in SearchTexts |-> None]
    /\ searching = {}
    /\ user = Some("user")
    /\ isLoading = FALSE
    /\ authInit = "restored"
    /\ routeView = None
    /\ hookCalls = [h \in ReadHooks |-> None]
    /\ hookStatus = [k \in HookKeys |-> "idle"]
    /\ defaultQuery = [status |-> "idle", portfolios |-> None, data |-> None]

\* A freshly loaded document on any route: persisted storage holds what an
\* earlier session left.
InitClient ==
    /\ holdings = <<>>
    /\ enriched = <<>>
    /\ rows = <<>>
    /\ summary = EmptySummary
    /\ sortField = "symbol"
    /\ sortDirection = "asc"
    /\ token \in {None} \cup {Some(t) : t \in Tokens}
    /\ userRecord \in {None, Some("user")}
    /\ pathname \in RoutePaths
    /\ inFlight = <<>>
    /\ redirects = 0
    /\ navigationPending = FALSE
    /\ lastError = None
    /\ lastFailure = None
    /\ portfolios = {}
    /\ defaultId = None
    /\ cache = [k \in CacheKeys |-> "absent"]
    /\ lastWrite = None
    /\ lookup = None
    /\ mutations = [m \in MutationIds |-> IdleMutation]
    /\ queryData = [k \in ReadKeys |-> "absent"]
    /\ observers = [k \in ReadKeys |-> 0]
    /\ fetches = <<>>
    /\ query = <<>>
    /\ results = None
    /\ isOpen = FALSE
    /\ selectedIndex = -1
    /\ selected = <<>>
    /\ searchData = [q \in SearchTexts |-> None]
    /\ searching = {}
    /\ user = None
    /\ isLoading = FALSE
    /\ authInit = "pending"
    /\ routeView = None
    /\ hookCalls = [h \in ReadHooks |-> None]
    /\ hookStatus = [k \in HookKeys |-> "idle"]
    /\ defaultQuery = [status |-> "idle", portfolios |-> None, data |-> None]

\* The application mounts on any route; persisted storage holds what an
\* earlier session, or anything else, left there.
InitAuth ==
    /\ holdings = <<>>
    /\ enriched = <<>>
    /\ rows = <<>>
    /\ summary = EmptySummary
    /\ sortField = "symbol"
    /\ sortDirection = "asc"
    /\ token \in {None} \cup {Some(t) : t \in Tokens}
    /\ userRecord \in SavedUsers
    /\ pathname \in AppPaths
    /\ inFlight = <<>>
    /\ redirects = 0
    /\ navigationPending = FALSE
    /\ lastError = None
    /\ lastFailure = None
    /\ portfolios = {}
    /\ defaultId = None
    /\ cache = [k \in CacheKeys |-> "absent"]
    /\ lastWrite = None
    /\ lookup = None
    /\ mutations = [m \in MutationIds |-> IdleMutation]
    /\ queryData = [k \in ReadKeys |-> "absent"]
    /\ observers = [k \in ReadKeys |-> 0]
    /\ fetches = <<>>
    /\ query = <<>>
    /\ results = None
    /\ isOpen = FALSE
    /\ selectedIndex = -1
    /\ selected = <<>>
    /\ searchData = [q \in SearchTexts |-> None]
    /\ searching = {}
    /\ user = None
    /\ isLoading = FALSE
    /\ authInit = "pending"
    /\ routeView = None
    /\ hookCalls = [h \in ReadHooks |-> None]
    /\ hookStatus = [k \in HookKeys |-> "idle"]
    /\ defaultQuery = [status |-> "idle", portfolios |-> None, data |-> None]

\* The holdings query of the dashboard resolves with one of `lists`;
\* DashboardPage and HoldingsTable re-render and their useMemo values are
\* recomputed.
ReceiveHoldings(lists) ==
    /\ holdings = <<>>
    /\ \E list \in lists :
        /\ list # <<>>
        /\ holdings' = list
        /\ enriched' = enrichedHoldings(list)
        /\ rows' = sortedHoldings(enrichedHoldings(list), sortField, sortDirection)
        /\ summary' = computeSummary(list)
    /\ UNCHANGED <<sortField, sortDirection>>
    /\ UNCHANGED <<clientVars, cacheVars, appVars>>

\* A click on a column header (rendered only when the table has rows),
\* followed by the re-render that re-sorts the rows.
handleSort(field) ==
    /\ Len(rows) > 0
    /\ LET next == handleSortResult(field, sortField, sortDirection)
       IN  /\ sortField' = next.sortField
           /\ sortDirection' = next.sortDirection
           /\ rows' = sortedHoldings(enriched, next.sortField, next.sortDirection)
    /\ UNCHANGED <<holdings, enriched, summary>>
    /\ UNCHANGED <<clientVars, cacheVars, appVars>>

\* A component sends a request: the request interceptor attaches the
\* stored token.  (A document sends at most MaxInFlight requests that can
\* still be answered.)
SendRequest ==
    /\ Len(inFlight) + redirects < MaxInFlight
    /\ inFlight' = Append(inFlight, [authorization |-> authorizationHeader(token)])
    /\ UNCHANGED <<token, userRecord, pathname, redirects, navigationPending, lastError, lastFailure>>
    /\ UNCHANGED <<tableVars, cacheVars, appVars>>

\* The response interceptor handles what came back for request i.
HandleResponse(i, response) ==
    /\ i \in 1..Len(inFlight)
    /\ inFlight' = RemoveAt(inFlight, i)
    /\ IF IsSuccess(response)
       THEN UNCHANGED <<token, userRecord, redirects, navigationPending, lastError, lastFailure>>
       ELSE /\ lastError' = Some(apiErrorOf(response))
            /\ lastFailure' = Some([code |-> IF response = None THEN "ERR_NETWORK"
                                              ELSE "ERR_BAD_RESPONSE",
                                     response |-> response])
            /\ IF response # None /\ response[1].status = 401
               THEN /\ token' = None
                    /\ userRecord' = None
                    /\ IF shouldRedirect(pathname)
                       THEN /\ redirects' = redirects + 1
                            /\ navigationPending' = TRUE
                       ELSE UNCHANGED <<redirects, navigationPending>>
               ELSE UNCHANGED <<token, userRecord, redirects, navigationPending>>
    /\ UNCHANGED pathname
    /\ UNCHANGED <<tableVars, cacheVars, appVars>>

\* Request i gets no response within the client's timeout: axios rejects
\* with an AxiosError that has no response, which the error handler gets.
RequestTimeout(i) ==
    /\ i \in 1..Len(inFlight)
    /\ inFlight' = RemoveAt(inFlight, i)
    /\ lastError' = Some(apiErrorOf(None))
    /\ lastFailure' = Some([code |-> "ECONNABORTED", response |-> None])
    /\ UNCHANGED <<token, userRecord, pathname, redirects, navigationPending>>
    /\ UNCHANGED <<tableVars, cacheVars, appVars>>

\* The navigation started by window.location.href = "/login" commits: the
\* login document replaces the current one, whose requests are dropped.
NavigationCommit ==
    /\ navigationPending
    /\ pathname' = LoginPath
    /\ inFlight' = <<>>
    /\ redirects' = 0
    /\ navigationPending' = FALSE
    /\ lastError' = None
    /\ lastFailure' = None
    /\ UNCHANGED <<token, userRecord>>
    /\ UNCHANGED <<tableVars, cacheVars, appVars>>

\* setAuthToken(t), called after login / register
setAuthToken(t) ==
    /\ token' = Some(t)
    /\ UNCHANGED <<userRecord, pathname, inFlight, redirects, navigationPending, lastError, lastFailure>>
    /\ UNCHANGED <<tableVars, cacheVars, appVars>>

\* clearAuthToken(), called on logout
clearAuthToken ==
    /\ token' = None
    /\ userRecord' = None
    /\ UNCHANGED <<pathname, inFlight, redirects, navigationPending, lastError, lastFailure>>
    /\ UNCHANGED <<tableVars, cacheVars, appVars>>

NextClient ==
    \/ SendRequest
    \/ \E i \in 1..MaxInFlight, response \in Responses : HandleResponse(i, response)
    \/ \E i \in 1..MaxInFlight : RequestTimeout(i)
    \/ NavigationCommit
    \/ \E t \in Tokens : setAuthToken(t)
    \/ clearAuthToken

SpecClient == InitClient /\ [][NextClient]_vars

\* A read hook (useGetPortfolios, useGetPortfolio, useGetDefaultPortfolio)
\* fetches a key that is not fresh; the response is cached.  (The detail
\* of a portfolio the backend does not have is an error, not data.)
FetchQuery(key) ==
    /\ cache[key] # "fresh"
    /\ \A p \in PortfolioIds :
          key = portfolioKeysDetail(UserId, p) => p \in portfolios
    /\ cache' = [cache EXCEPT ![key] = "fresh"]
    /\ lastWrite' = None
    /\ UNCHANGED <<portfolios, defaultId>>
    /\ UNCHANGED <<tableVars, clientVars, appVars>>

\* The staleTime of a cached query elapses.
BecomeStale(key) ==
    /\ cache[key] = "fresh"
    /\ cache' = [cache EXCEPT ![key] = "stale"]
    /\ lastWrite' = None
    /\ UNCHANGED <<portfolios, defaultId>>
    /\ UNCHANGED <<tableVars, clientVars, appVars>>

\* useCreatePortfolio succeeds: the backend adds portfolio p under an id not
\* seen before, and p may have become the default.
CreatePortfolio(p, newDefault) ==
    /\ p \notin portfolios
    /\ cache[portfolioKeysDetail(UserId, p)] = "absent"
    /\ newDefault \in {defaultId, Some(p)}
    /\ portfolios' = portfolios \cup {p}
    /\ defaultId' = newDefault
    /\ cache' = invalidateListAndDefault(cache, UserId)
    /\ lastWrite' = Some([op |-> "create", portfolioId |-> p,
                          affected |-> FlagChanged(defaultId, newDefault)])
    /\ UNCHANGED <<tableVars, clientVars, appVars>>

\* useUpdatePortfolio succeeds: name or currency of p changed and its
\* isDefault flag may have changed.
UpdatePortfolio(p, newDefault) ==
    /\ p \in portfolios
    /\ newDefault \in {defaultId, Some(p)}
    /\ defaultId' = newDefault
    /\ cache' = invalidateListDetailAndDefault(cache, UserId, p)
    /\ lastWrite' = Some([op |-> "update", portfolioId |-> p,
                          affected |-> FlagChanged(defaultId, newDefault)])
    /\ UNCHANGED portfolios
    /\ UNCHANGED <<tableVars, clientVars, appVars>>

\* useDeletePortfolio succeeds: the backend removed p; if p was the default
\* another portfolio may become the default.
DeletePortfolio(p, newDefault) ==
    /\ p \in portfolios
    /\ IF defaultId = Some(p)
       THEN newDefault \in {None} \cup {Some(q) : q \in portfolios \ {p}}
       ELSE newDefault = defaultId
    /\ portfolios' = portfolios \ {p}
    /\ defaultId' = newDefault
    /\ cache' = invalidateListAndDefault(cache, UserId)
    /\ lastWrite' = Some([op |-> "delete", portfolioId |-> p,
                          affected |-> {p} \cup FlagChanged(defaultId, newDefault)])
    /\ UNCHANGED <<tableVars, clientVars, appVars>>

\* useSetDefaultPortfolio succeeds: p is the default now.
SetDefaultPortfolio(p) ==
    /\ p \in portfolios
    /\ defaultId' = Some(p)
    /\ cache' = invalidateListAndDefault(cache, UserId)
    /\ lastWrite' = Some([op |-> "setDefault", portfolioId |-> p,
                          affected |-> FlagChanged(defaultId, Some(p))])
    /\ UNCHANGED portfolios
    /\ UNCHANGED <<tableVars, clientVars, appVars>>

DefaultChoices == {None} \cup {Some(p) : p \in PortfolioIds}

NextCache ==
    \/ \E key \in CacheKeys : FetchQuery(key)
    \/ \E key \in CacheKeys : BecomeStale(key)
    \/ \E p \in PortfolioIds, d \in DefaultChoices : CreatePortfolio(p, d)
    \/ \E p \in PortfolioIds, d \in DefaultChoices : UpdatePortfolio(p, d)
    \/ \E p \in PortfolioIds, d \in DefaultChoices : DeletePortfolio(p, d)
    \/ \E p \in PortfolioIds : SetDefaultPortfolio(p)

SpecCache == Init /\ [][NextCache]_vars

\* A caller looks a security up among a portfolio's holdings.
FindHolding(outcome, securityId) ==
    /\ lookup' = Some([securityId |-> securityId, outcome |-> outcome,
                       result |-> findHoldingBySecurityId(outcome, securityId)])
    /\ UNCHANGED <<tableVars, hookVars, clientVars, cacheVars, mutationVars, queryVars, searchVars, authVars>>

NextLookup ==
    \E outcome \in FetchOutcomes, securityId \in SearchedSecurityIds :
        FindHolding(outcome, securityId)

SpecLookup == Init /\ [][NextLookup]_vars

\* mutate(): a settled or unused mutation hook is invoked; its request is
\* sent.
Mutate(m) ==
    /\ mutations[m].status \in {"idle", "success", "error"}
    /\ mutations' = [mutations EXCEPT ![m] =
                        [status |-> "pending", sent |-> 1, failures |-> 0, error |-> None]]
    /\ UNCHANGED <<tableVars, hookVars, clientVars, cacheVars, lookupVars, queryVars, searchVars, authVars>>

\* The request of a pending mutation succeeds.
MutationAttemptSucceeds(m) ==
    /\ mutations[m].status = "pending"
    /\ mutations' = [mutations EXCEPT ![m].status = "success"]
    /\ UNCHANGED <<tableVars, hookVars, clientVars, cacheVars, lookupVars, queryVars, searchVars, authVars>>

\* The request of a pending mutation is rejected: it is scheduled for a
\* retry, or the error is surfaced (onError, the hook's error state).
MutationAttemptFails(m, err) ==
    /\ mutations[m].status = "pending"
    /\ mutations' = [mutations EXCEPT ![m] =
          IF shouldRetry(@.failures)
          THEN [@ EXCEPT !.status = "retrying", !.failures = @ + 1]
          ELSE [@ EXCEPT !.status = "error", !.failures = @ + 1, !.error = Some(err)]]
    /\ UNCHANGED <<tableVars, hookVars, clientVars, cacheVars, lookupVars, queryVars, searchVars, authVars>>

\* The retry delay has passed: the request is sent again.
MutationRetryFires(m) ==
    /\ mutations[m].status = "retrying"
    /\ mutations' = [mutations EXCEPT ![m].status = "pending", ![m].sent = @ + 1]
    /\ UNCHANGED <<tableVars, hookVars, clientVars, cacheVars, lookupVars, queryVars, searchVars, authVars>>

NextMutation ==
    \/ \E m \in MutationIds : Mutate(m)
    \/ \E m \in MutationIds : MutationAttemptSucceeds(m)
    \/ \E m \in MutationIds, err \in MutationErrors : MutationAttemptFails(m, err)
    \/ \E m \in MutationIds : MutationRetryFires(m)

SpecMutation == Init /\ [][NextMutation]_vars

\* A component that reads `key` mounts: fresh data is served from the
\* cache, otherwise the key is fetched (refetchOnMount) or the running
\* fetch is joined.
MountReader(key) ==
    /\ observers[key] < MaxObservers
    /\ Len(fetches) < MaxFetches
    /\ observers' = [observers EXCEPT ![key] = @ + 1]
    /\ fetches' = IF queryData[key] = "fresh" THEN fetches
                  ELSE fetchQuery(fetches, queryData, key, FALSE)
    /\ UNCHANGED queryData
    /\ UNCHANGED <<tableVars, hookVars, clientVars, cacheVars, lookupVars, mutationVars, searchVars, authVars>>

UnmountReader(key) ==
    /\ observers[key] > 0
    /\ observers' = [observers EXCEPT ![key] = @ - 1]
    /\ UNCHANGED <<queryData, fetches>>
    /\ UNCHANGED <<tableVars, hookVars, clientVars, cacheVars, lookupVars, mutationVars, searchVars, authVars>>

\* onSuccess of a portfolio write: list and default key are invalidated,
\* in this order.
PortfolioWriteSucceeds ==
    /\ Len(fetches) + 2 <= MaxFetches
    /\ queryData' = [k \in ReadKeys |->
                       IF queryData[k] = "fresh" THEN "stale" ELSE queryData[k]]
    /\ fetches' = invalidateAndRefetch(
                     invalidateAndRefetch(fetches, queryData, observers,
                                          portfolioKeysList(UserId)),
                     queryData, observers, portfolioKeysDefault(UserId))
    /\ UNCHANGED observers
    /\ UNCHANGED <<tableVars, hookVars, clientVars, cacheVars, lookupVars, mutationVars, searchVars, authVars>>

\* The response to request i arrives: the cache takes the data of a fetch
\* that is still the key's fetch and drops that of an abandoned one.
FetchResolves(i) ==
    /\ i \in 1..Len(fetches)
    /\ ~fetches[i].waiting
    /\ fetches' = RemoveAt(fetches, i)
    /\ queryData' = IF fetches[i].abandoned THEN queryData
                    ELSE [queryData EXCEPT ![fetches[i].key] = "fresh"]
    /\ UNCHANGED observers
    /\ UNCHANGED <<tableVars, hookVars, clientVars, cacheVars, lookupVars, mutationVars, searchVars, authVars>>

\* Request i is rejected: an abandoned fetch is dropped, a running one waits
\* for its one retry or ends in the error state.
FetchFails(i) ==
    /\ i \in 1..Len(fetches)
    /\ ~fetches[i].waiting
    /\ fetches' = IF ~fetches[i].abandoned /\ shouldRetryQuery(fetches[i].failures)
                  THEN [fetches EXCEPT ![i].waiting = TRUE, ![i].failures = @ + 1]
                  ELSE RemoveAt(fetches, i)
    /\ UNCHANGED <<queryData, observers>>
    /\ UNCHANGED <<tableVars, hookVars, clientVars, cacheVars, lookupVars, mutationVars, searchVars, authVars>>

\* The retry delay of fetch i has passed: its request is sent again.
FetchRetryFires(i) ==
    /\ i \in 1..Len(fetches)
    /\ fetches[i].waiting
    /\ fetches' = [fetches EXCEPT ![i].waiting = FALSE]
    /\ UNCHANGED <<queryData, observers>>
    /\ UNCHANGED <<tableVars, hookVars, clientVars, cacheVars, lookupVars, mutationVars, searchVars, authVars>>

\* staleTime has passed for fresh data.
StaleTimePasses(key) ==
    /\ queryData[key] = "fresh"
    /\ queryData' = [queryData EXCEPT ![key] = "stale"]
    /\ UNCHANGED <<observers, fetches>>
    /\ UNCHANGED <<tableVars, hookVars, clientVars, cacheVars, lookupVars, mutationVars, searchVars, authVars>>

NextQuery ==
    \/ \E key \in ReadKeys : MountReader(key)
    \/ \E key \in ReadKeys : UnmountReader(key)
    \/ PortfolioWriteSucceeds
    \/ \E i \in 1..MaxFetches : FetchResolves(i)
    \/ \E i \in 1..MaxFetches : FetchFails(i)
    \/ \E i \in 1..MaxFetches : FetchRetryFires(i)
    \/ \E key \in ReadKeys : StaleTimePasses(key)

SpecQuery == Init /\ [][NextQuery]_vars

\* onChange of the search input: the component renders with the new text,
\* its query observes the text's key (fetching it when it is enabled, has
\* no fresh data and is not being fetched), and the results effect runs.
setQuery(q) ==
    /\ q # query
    /\ query' = q
    /\ searching' = IF /\ searchEnabled(q)
                       /\ q \notin searching
                       /\ (searchData[q] = None \/ searchData[q][1].stale)
                    THEN searching \cup {q} ELSE searching
    /\ results' = resultsEffect(searchData, q).results
    /\ isOpen' = resultsEffect(searchData, q).isOpen
    /\ selected' = <<>>
    /\ UNCHANGED <<searchData, selectedIndex>>
    /\ UNCHANGED <<tableVars, hookVars, clientVars, cacheVars, lookupVars, mutationVars, queryVars, authVars>>

\* The response to the search for q arrives with `count` securities; when
\* the observed data changed the results effect runs.
SearchResponse(q, count) ==
    /\ q \in searching
    /\ searching' = searching \ {q}
    /\ LET key == responseKey(q, query)
           data == [searchData EXCEPT ![key] =
                      Some([payload |-> SearchPayload(q, count),
                            stale |-> FALSE, during |-> query])]
       IN  /\ searchData' = data
           /\ IF key = query
              THEN /\ results' = resultsEffect(data, query).results
                   /\ isOpen' = resultsEffect(data, query).isOpen
              ELSE UNCHANGED <<results, isOpen>>
    /\ selected' = <<>>
    /\ UNCHANGED <<query, selectedIndex>>
    /\ UNCHANGED <<tableVars, hookVars, clientVars, cacheVars, lookupVars, mutationVars, queryVars, authVars>>

\* The search for q is rejected.
SearchFails(q) ==
    /\ q \in searching
    /\ searching' = searching \ {q}
    /\ selected' = <<>>
    /\ UNCHANGED <<query, results, isOpen, selectedIndex, searchData>>
    /\ UNCHANGED <<tableVars, hookVars, clientVars, cacheVars, lookupVars, mutationVars, queryVars, authVars>>

\* staleTime (5 minutes) has passed for the data of q.
SearchStaleTimePasses(q) ==
    /\ searchData[q] # None
    /\ ~searchData[q][1].stale
    /\ searchData' = [searchData EXCEPT ![q] = Some([@[1] EXCEPT !.stale = TRUE])]
    /\ selected' = <<>>
    /\ UNCHANGED <<query, results, isOpen, selectedIndex, searching>>
    /\ UNCHANGED <<tableVars, hookVars, clientVars, cacheVars, lookupVars, mutationVars, queryVars, authVars>>

\* A click on row `index` of the dropdown: handleSelect(results[index]);
\* the render with the cleared text follows and its effect clears the
\* results once more.
clickRow(index) ==
    /\ dropdownShown(isOpen, results)
    /\ index < resultsLength(results)
    /\ LET out == handleSelect(ComboState(query, results, isOpen, selectedIndex), itemAt(results, index)[1])
       IN  /\ query' = out.state.query
           /\ results' = out.state.results
           /\ isOpen' = out.state.isOpen
           /\ selectedIndex' = out.state.selectedIndex
           /\ selected' = out.calls
    /\ UNCHANGED <<searchData, searching>>
    /\ UNCHANGED <<tableVars, hookVars, clientVars, cacheVars, lookupVars, mutationVars, queryVars, authVars>>

\* onMouseEnter of row `index` of the dropdown.
hoverRow(index) ==
    /\ dropdownShown(isOpen, results)
    /\ index < resultsLength(results)
    /\ selectedIndex' = index
    /\ selected' = <<>>
    /\ UNCHANGED <<query, results, isOpen, searchData, searching>>
    /\ UNCHANGED <<tableVars, hookVars, clientVars, cacheVars, lookupVars, mutationVars, queryVars, authVars>>

\* onKeyDown of the input.
pressKey(key) ==
    LET out == handleKeyDown(key, ComboState(query, results, isOpen, selectedIndex))
    IN  /\ query' = out.state.query
        /\ results' = out.state.results
        /\ isOpen' = out.state.isOpen
        /\ selectedIndex' = out.state.selectedIndex
        /\ selected' = out.calls
        /\ UNCHANGED <<searchData, searching>>
        /\ UNCHANGED <<tableVars, hookVars, clientVars, cacheVars, lookupVars, mutationVars, queryVars, authVars>>

\* A click outside closes the dropdown; focusing the input reopens it over
\* the results it has.
toggleDropdown ==
    /\ results # None /\ results[1].count > 0
    /\ isOpen' = ~isOpen
    /\ selected' = <<>>
    /\ UNCHANGED <<query, results, selectedIndex, searchData, searching>>
    /\ UNCHANGED <<tableVars, hookVars, clientVars, cacheVars, lookupVars, mutationVars, queryVars, authVars>>

NextSearch ==
    \/ \E q \in SearchTexts : setQuery(q)
    \/ \E q \in SearchTexts, count \in 0..MaxResults : SearchResponse(q, count)
    \/ \E q \in SearchTexts : SearchFails(q)
    \/ \E q \in SearchTexts : SearchStaleTimePasses(q)
    \/ \E index \in 0..(MaxResults - 1) : clickRow(index)
    \/ \E index \in 0..(MaxResults - 1) : hoverRow(index)
    \/ \E key \in Keys : pressKey(key)
    \/ toggleDropdown

SpecSearch == Init /\ [][NextSearch]_vars

\* The mount effect of AuthProvider.
initializeAuth ==
    /\ authInit = "pending"
    /\ IF shouldRestore(token, userRecord)
       THEN LET parsed == JsonParse(userRecord[1])
            IN  IF parsed.ok
                THEN /\ user' = parsed.value
                     /\ authInit' = "restored"
                     /\ UNCHANGED <<token, userRecord>>
                ELSE /\ token' = None
                     /\ userRecord' = None
                     /\ authInit' = "cleared"
                     /\ UNCHANGED user
       ELSE /\ authInit' = "skipped"
            /\ UNCHANGED <<token, userRecord, user>>
    /\ isLoading' = FALSE
    /\ UNCHANGED routeView
    /\ UNCHANGED <<pathname, inFlight, redirects, navigationPending, lastError, lastFailure>>
    /\ UNCHANGED <<tableVars, hookVars, cacheVars, lookupVars, mutationVars, queryVars, searchVars>>

\* login, register and logout of the provider change the context's user
\* and loading flag.
AuthContextUpdate(u, loading) ==
    /\ authInit # "pending"
    /\ user' = u
    /\ isLoading' = loading
    /\ UNCHANGED <<authInit, routeView>>
    /\ UNCHANGED <<tableVars, hookVars, clientVars, cacheVars, lookupVars, mutationVars, queryVars, searchVars>>

\* The router shows another route.
Visit(path) ==
    /\ path # pathname
    /\ pathname' = path
    /\ UNCHANGED <<token, userRecord, inFlight, redirects, navigationPending, lastError, lastFailure>>
    /\ UNCHANGED authVars
    /\ UNCHANGED <<tableVars, hookVars, cacheVars, lookupVars, mutationVars, queryVars, searchVars>>

\* ProtectedRoute renders on the dashboard route with the context's
\* present values; a <Navigate> it returns replaces the location.
RenderProtectedRoute ==
    /\ routeElement(pathname).element = "ProtectedRoute"
    /\ LET view == ProtectedRoute(isAuthenticatedOf(user), isLoading, pathname)
       IN  /\ routeView' = Some([isAuthenticated |-> isAuthenticatedOf(user),
                                 isLoading |-> isLoading,
                                 location |-> pathname,
                                 view |-> view])
           /\ pathname' = IF view.kind = "navigate" THEN view.to[1] ELSE pathname
    /\ UNCHANGED <<user, isLoading, authInit>>
    /\ UNCHANGED <<token, userRecord, inFlight, redirects, navigationPending, lastError, lastFailure>>
    /\ UNCHANGED <<tableVars, hookVars, cacheVars, lookupVars, mutationVars, queryVars, searchVars>>

\* The root route or the catch-all route renders: its <Navigate replace>
\* replaces the location.
RenderRedirectRoute ==
    /\ routeElement(pathname).element = "Navigate"
    /\ pathname' = routeElement(pathname).to[1]
    /\ UNCHANGED <<token, userRecord, inFlight, redirects, navigationPending, lastError, lastFailure>>
    /\ UNCHANGED authVars
    /\ UNCHANGED <<tableVars, hookVars, cacheVars, lookupVars, mutationVars, queryVars, searchVars>>

NextAuth ==
    \/ initializeAuth
    \/ \E u \in {None, Some("user")}, loading \in BOOLEAN : AuthContextUpdate(u, loading)
    \/ \E path \in AppPaths : Visit(path)
    \/ RenderProtectedRoute
    \/ RenderRedirectRoute

SpecAuth == InitAuth /\ [][NextAuth]_vars

\* A document load that nobody interacts with: the routes render and the
\* mount effect runs.
NextRoutes ==
    \/ initializeAuth
    \/ RenderProtectedRoute
    \/ RenderRedirectRoute

\* React renders the element of the matched route after every change of
\* location and runs the mount effect after the first commit.
SpecRoutes ==
    /\ InitAuth /\ [][NextRoutes]_vars
    /\ WF_vars(initializeAuth)
    /\ WF_vars(RenderProtectedRoute)
    /\ WF_vars(RenderRedirectRoute)

\* A component renders a read hook with these arguments (mount, or a
\* change of arguments): an enabled query that is not being fetched is
\* fetched; a disabled one is only observed.
RenderHook(hook, params, flag) ==
    /\ hookCalls[hook] # Some([params |-> params, enabled |-> flag])
    /\ Cardinality({h \in ReadHooks \ {hook} : hookCalls[h] # None}) < MaxMounted
    /\ hookCalls' = [hookCalls EXCEPT ![hook] = Some([params |-> params, enabled |-> flag])]
    /\ hookStatus' = IF enabledOf(hook, params, flag)
                     THEN [hookStatus EXCEPT ![[hook |-> hook, params |-> params]] = "fetching"]
                     ELSE hookStatus
    /\ UNCHANGED <<defaultQuery, tableVars, clientVars, cacheVars, lookupVars,
                   mutationVars, queryVars, searchVars, authVars>>

UnmountHook(hook) ==
    /\ hookCalls[hook] # None
    /\ hookCalls' = [hookCalls EXCEPT ![hook] = None]
    /\ UNCHANGED hookStatus
    /\ UNCHANGED <<defaultQuery, tableVars, clientVars, cacheVars, lookupVars,
                   mutationVars, queryVars, searchVars, authVars>>

\* The request of a query settles, with data or (after its retry) an
\* error.  The error is kept where a component reads it: DashboardPage's
\* portfolioError; the other queries count as idle again.
HookRequestSettles(k, ok) ==
    /\ hookStatus[k] = "fetching"
    /\ hookStatus' = [hookStatus EXCEPT ![k] =
                        IF ok \/ k.hook # "useGetDefaultPortfolio" THEN "idle" ELSE "error"]
    /\ UNCHANGED hookCalls
    /\ UNCHANGED <<defaultQuery, tableVars, clientVars, cacheVars, lookupVars,
                   mutationVars, queryVars, searchVars, authVars>>

\* onSuccess of useUpdatePortfolio / useDeletePortfolio (useCreatePortfolio
\* invalidates the first two): list, detail and default key of the
\* mutation's userId and portfolioId are invalidated.
InvalidatePortfolioReads(userId, portfolioId) ==
    LET matches == {k \in HookKeys :
            \/ k.hook \in {"useGetPortfolios", "useGetDefaultPortfolio"} /\ k.params = <<userId>>
            \/ k.hook = "useGetPortfolio" /\ k.params = <<userId, portfolioId>>}
    IN  /\ hookStatus' = refetchInvalidated(hookStatus, hookCalls, matches)
        /\ hookStatus' # hookStatus
        /\ UNCHANGED hookCalls
        /\ UNCHANGED <<defaultQuery, tableVars, clientVars, cacheVars, lookupVars,
                       mutationVars, queryVars, searchVars, authVars>>

\* onSuccess of useGetOrCreateSecurity: securitiesKeys.all is invalidated.
InvalidateSecurityReads ==
    LET matches == {k \in HookKeys : k.hook \in SecurityHooks}
    IN  /\ hookStatus' = refetchInvalidated(hookStatus, hookCalls, matches)
        /\ hookStatus' # hookStatus
        /\ UNCHANGED hookCalls
        /\ UNCHANGED <<defaultQuery, tableVars, clientVars, cacheVars, lookupVars,
                       mutationVars, queryVars, searchVars, authVars>>

\* DashboardPage's error view: onRetry calls refetchPortfolio when the
\* default-portfolio query is in error; refetch() does not consult
\* `enabled`.
refetchPortfolio ==
    /\ hookCalls["useGetDefaultPortfolio"] # None
    /\ hookStatus[observedKey(hookCalls, "useGetDefaultPortfolio")] = "error"
    /\ hookStatus' = [hookStatus EXCEPT
                        ![observedKey(hookCalls, "useGetDefaultPortfolio")] = "fetching"]
    /\ UNCHANGED hookCalls
    /\ UNCHANGED <<defaultQuery, tableVars, clientVars, cacheVars, lookupVars,
                   mutationVars, queryVars, searchVars, authVars>>

NextHooks ==
    \/ \E h \in ReadHooks : \E ps \in HookParams(h), flag \in HookFlags(h) :
          RenderHook(h, ps, flag)
    \/ \E h \in ReadHooks : UnmountHook(h)
    \/ \E k \in HookKeys, ok \in BOOLEAN : HookRequestSettles(k, ok)
    \/ \E u \in IdTexts, p \in IdTexts : InvalidatePortfolioReads(u, p)
    \/ InvalidateSecurityReads
    \/ refetchPortfolio

SpecHooks == Init /\ [][NextHooks]_vars

\* The default-portfolio query starts a fetch; its data stays what it was.
FetchDefaultPortfolio ==
    /\ defaultQuery.status = "idle"
    /\ defaultQuery' = [defaultQuery EXCEPT !.status = "fetching"]
    /\ UNCHANGED <<hookCalls, hookStatus>>
    /\ UNCHANGED <<tableVars, clientVars, cacheVars, lookupVars, mutationVars,
                   queryVars, searchVars, authVars>>

\* getUserPortfolios resolves with `ps`; the query function returns the
\* default portfolio, which select passes on unchanged.
DefaultPortfolioResolves(ps) ==
    /\ defaultQuery.status = "fetching"
    /\ defaultQuery' = [status |-> "idle", portfolios |-> Some(ps),
                        data |-> Some(defaultPortfolioOf(ps))]
    /\ UNCHANGED <<hookCalls, hookStatus>>
    /\ UNCHANGED <<tableVars, clientVars, cacheVars, lookupVars, mutationVars,
                   queryVars, searchVars, authVars>>

NextDefault ==
    \/ FetchDefaultPortfolio
    \/ \E ps \in ListsOf(PortfolioDtos, MaxPortfolios) : DefaultPortfolioResolves(ps)

SpecDefault == Init /\ [][NextDefault]_vars

NextCalc == ReceiveHoldings(ListsOf(HoldingDomain, MaxHoldings))

SpecCalc == Init /\ [][NextCalc]_vars

NextSort ==
    \/ ReceiveHoldings(ListsOf(SortDomain, MaxRows))
    \/ \E field \in SortFields : handleSort(field)

SpecSort == Init /\ [][NextSort]_vars

\* ------------------------------------------------------------------------
\* Properties of the derived-holdings calculator (SpecCalc)
\* ------------------------------------------------------------------------
Reverse(s) == [i \in 1..Len(s) |-> s[Len(s) + 1 - i]]

\* Book value as the data model states it: shares x average cost, 0 for a
\* missing field.
StatedBookValue(h) ==
    (IF h.totalShares = None THEN 0 ELSE h.totalShares[1])
    * (IF h.averageCost = None THEN 0 ELSE h.averageCost[1])

HasNestedPrice(h) == h.security # None /\ h.security[1].currentPrice # None
HasFlatPrice(h) == h.currentPrice # None

\* The current price of a holding where it has one (the nested one first),
\* 0 where it has none.
EffectivePrice(h) ==
    IF HasNestedPrice(h) THEN h.security[1].currentPrice[1]
    ELSE IF HasFlatPrice(h) THEN h.currentPrice[1]
    ELSE 0

\* The earlier revision of the table knows the nested price only.
NestedPriceOrZero(h) ==
    IF HasNestedPrice(h) THEN h.security[1].currentPrice[1] ELSE 0

StatedShares(h) == IF h.totalShares = None THEN 0 ELSE h.totalShares[1]

Rendered == holdings # <<>> /\ Len(enriched) = Len(holdings)

\* C4: every holding whose book value (shares x average cost, 0 for missing
\* fields) is 0 has a gain-percent of exactly 0, and no holding has a NaN or
\* infinite gain-percent; in the current and in the earlier calculator.
C4_ZeroBookValueZeroPercent ==
    \A i \in 1..Len(enriched) :
        LET earlier == enrichHoldingEarlier(holdings[i])
        IN  /\ IsFiniteNumber(enriched[i].unrealizedGainPercent)
            /\ IsFiniteNumber(earlier.unrealizedGainPercent)
            /\ StatedBookValue(holdings[i]) = 0
                 => /\ enriched[i].unrealizedGainPercent = Zero
                    /\ earlier.unrealizedGainPercent = Zero

\* A rendered row with book value 0 (missing average cost) and a non-zero
\* market value, next to a row with a positive book value.
C4_Witness ==
    /\ Rendered
    /\ \E i, j \in 1..Len(enriched) :
        /\ StatedBookValue(holdings[i]) = 0
        /\ enriched[i].marketValue > 0
        /\ enriched[i].unrealizedGainPercent = Zero
        /\ StatedBookValue(holdings[j]) > 0

\* C5: the derived market value of every holding is shares x effective
\* current price: the holding's current price when it has one, 0 when it is
\* missing, and 0 shares when the share count is missing.  (The earlier
\* calculator reads the nested price only.)
C5_MarketValue ==
    \A i \in 1..Len(enriched) :
        /\ enriched[i].marketValue
             = StatedShares(holdings[i]) * EffectivePrice(holdings[i])
        /\ enrichHoldingEarlier(holdings[i]).marketValue
             = StatedShares(holdings[i]) * NestedPriceOrZero(holdings[i])

\* Rendered rows with a nested price, with a flat price only and without
\* any price, one of them without a share count.
C5_Witness ==
    /\ Rendered
    /\ \E i, j \in 1..Len(enriched) :
        /\ HasNestedPrice(holdings[i]) /\ enriched[i].marketValue = 1200
        /\ ~HasNestedPrice(holdings[j]) /\ HasFlatPrice(holdings[j])
        /\ enriched[j].marketValue = 200

C5_WitnessMissing ==
    /\ Rendered
    /\ \E i, j \in 1..Len(enriched) :
        /\ ~HasNestedPrice(holdings[i]) /\ ~HasFlatPrice(holdings[i])
        /\ holdings[i].totalShares # None /\ enriched[i].marketValue = 0
        /\ holdings[j].totalShares = None /\ HasNestedPrice(holdings[j])
        /\ enriched[j].marketValue = 0

\* gain-percent of a row as the data model states it: gain / book value,
\* 0 when the book value is 0; stated by cross-multiplication.
IsQuotient(q, n, d) ==
    /\ q.kind = "finite"
    /\ q.den > 0
    /\ q.num * d = n * q.den

StatedDerivedValues(row, shares, price, cost) ==
    /\ row.currentPrice = price
    /\ row.marketValue = shares * price
    /\ row.bookValue = shares * cost
    /\ row.unrealizedGain = shares * price - shares * cost
    /\ IF shares * cost > 0
       THEN IsQuotient(row.unrealizedGainPercent,
                       shares * price - shares * cost, shares * cost)
       ELSE row.unrealizedGainPercent = Zero

StatedCost(h) == IF h.averageCost = None THEN 0 ELSE h.averageCost[1]

\* The claim of C6 as it was made: a holding without nested security gets
\* the symbol "N/A" and the price 0, and its four derived values by the
\* common formulas.
C6_Original ==
    \A i \in 1..Len(enriched) :
        holdings[i].security = None
          => /\ enriched[i].security[1].symbol = SymNA
             /\ StatedDerivedValues(enriched[i], StatedShares(holdings[i]), 0,
                                    StatedCost(holdings[i]))

\* C6 (amended): a holding without nested security gets its flat symbol and
\* flat current price where the holding carries them and the defaults "N/A"
\* and 0 where it does not, and its four derived values by the common
\* formulas from that price.
C6_MissingSecurityDefaults ==
    \A i \in 1..Len(enriched) :
        holdings[i].security = None
          => /\ enriched[i].security[1].symbol
                  = (IF holdings[i].symbol = None \/ holdings[i].symbol = Some(<<>>)
                     THEN SymNA ELSE holdings[i].symbol[1])
             /\ StatedDerivedValues(
                    enriched[i], StatedShares(holdings[i]),
                    IF HasFlatPrice(holdings[i]) THEN holdings[i].currentPrice[1] ELSE 0,
                    StatedCost(holdings[i]))

\* A rendered holding without security and without flat fields whose book
\* value is positive (so its gain is minus the book value, -100%), next to
\* one without security that carries a flat price.
C6_Witness ==
    /\ Rendered
    /\ \E i, j \in 1..Len(enriched) :
        /\ holdings[i].security = None /\ ~HasFlatPrice(holdings[i])
        /\ enriched[i].security[1].symbol = SymNA
        /\ enriched[i].bookValue = 500
        /\ enriched[i].unrealizedGain = -500
        /\ enriched[i].unrealizedGainPercent = Frac(-1, 1)
        /\ holdings[j].security = None /\ HasFlatPrice(holdings[j])
        /\ enriched[j].security[1].symbol = SymMSFT

IsHolding(h, shares, cost, price) ==
    /\ h.totalShares = Some(shares)
    /\ h.averageCost = Some(cost)
    /\ EffectivePrice(h) = price

\* C7: for every holding with book value > 0, unrealized gain is market
\* value - book value and gain percent is unrealized gain / book value; the
\* holdings (10, 100, 120) and (5, 50, 40) get market values 1200 and 200,
\* gains 200 and -50 and gain percents +20% and -20%.
C7_GainAndPercent ==
    \A i \in 1..Len(enriched) :
        /\ StatedBookValue(holdings[i]) > 0
             => /\ enriched[i].unrealizedGain
                     = enriched[i].marketValue - enriched[i].bookValue
                /\ IsQuotient(enriched[i].unrealizedGainPercent,
                              enriched[i].unrealizedGain, enriched[i].bookValue)
        /\ IsHolding(holdings[i], 10, 100, 120)
             => /\ enriched[i].marketValue = 1200
                /\ enriched[i].unrealizedGain = 200
                /\ IsQuotient(enriched[i].unrealizedGainPercent, 20, 100)
        /\ IsHolding(holdings[i], 5, 50, 40)
             => /\ enriched[i].marketValue = 200
                /\ enriched[i].unrealizedGain = -50
                /\ IsQuotient(enriched[i].unrealizedGainPercent, -20, 100)

\* The example list of the specification, rendered.
C7_Witness ==
    /\ Len(holdings) = 2 /\ Len(enriched) = 2
    /\ IsHolding(holdings[1], 10, 100, 120)
    /\ IsHolding(holdings[2], 5, 50, 40)
    /\ enriched[1].marketValue = 1200 /\ enriched[2].marketValue = 200
    /\ enriched[1].unrealizedGain = 200 /\ enriched[2].unrealizedGain = -50
    /\ enriched[1].unrealizedGainPercent = Frac(1, 5)
    /\ enriched[2].unrealizedGainPercent = Frac(-1, 5)

\* A holding lacks a current price when neither its nested security nor
\* the holding itself carries one.
LacksPrice(h) == ~HasNestedPrice(h) /\ ~HasFlatPrice(h)

IsNumericSummary(s) ==
    /\ ~s.threw
    /\ s.totalValue \in Int
    /\ s.totalCost \in Int
    /\ s.totalGain \in Int
    /\ IsFiniteNumber(s.totalGainPercent)

C27_PricePathsAgree ==
    /\ \A i \in 1..Len(holdings) :
          /\ lastPriceCell(enriched[i]) = None <=> LacksPrice(holdings[i])
          /\ flatPriceMissing(holdings[i]) <=> LacksPrice(holdings[i])
          /\ lastPriceCell(enriched[i]) = None => enriched[i].marketValue = 0
    /\ summary.hasMissingPrices => \E i \in 1..Len(holdings) : LacksPrice(holdings[i])

\* Where the paths do agree: on holdings that carry the flat price and no
\* nested security, and on holdings without any price.
C27_AgreeOnFlatHoldings ==
    \A i \in 1..Len(holdings) :
        (holdings[i].security = None \/ LacksPrice(holdings[i])) =>
            /\ lastPriceCell(enriched[i]) = None <=> LacksPrice(holdings[i])
            /\ flatPriceMissing(holdings[i]) <=> LacksPrice(holdings[i])
            /\ lastPriceCell(enriched[i]) = None => enriched[i].marketValue = 0

\* ------------------------------------------------------------------------
\* Properties of the sort state and order (SpecSort)
\* ------------------------------------------------------------------------
KeysOf(rs, field) == [i \in 1..Len(rs) |-> numericValue(rs[i], field)]

DistinctKeys(rs, field) ==
    \A i, j \in 1..Len(rs) :
        i # j => numericValue(rs[i], field) # numericValue(rs[j], field)

FlipDirection(d) == IF d = "asc" THEN "desc" ELSE "asc"

\* C8: handleSort on the active field flips the direction and leaves the
\* field unchanged, and a second toggle on the same field restores the
\* original (field, direction) pair.
C8_ToggleActiveField ==
    [][\A f \in SortFields :
         (handleSort(f) /\ f = sortField)
           => /\ sortField' = sortField
              /\ sortDirection' = FlipDirection(sortDirection)
              /\ handleSortResult(f, sortField', sortDirection')
                   = [sortField |-> sortField, sortDirection |-> sortDirection]]_vars

\* Rows shown in descending order of a field: a toggle has acted.
C8_Witness ==
    /\ Len(rows) >= 2
    /\ sortField = "value"
    /\ sortDirection = "desc"

\* C9: the table starts with (symbol, ascending); handleSort on a field
\* other than the active one makes it the active field with direction
\* ascending whatever the direction was; there is always exactly one active
\* field and one direction.
C9_SelectNewField ==
    /\ (sortField = "symbol" /\ sortDirection = "asc")
    /\ [][/\ sortField' \in SortFields
          /\ sortDirection' \in SortDirections
          /\ \A f \in SortFields :
               (handleSort(f) /\ f # sortField)
                 => (sortField' = f /\ sortDirection' = "asc")]_vars

\* A field other than the initial one is active, ascending.
C9_Witness ==
    /\ Len(rows) >= 2
    /\ sortField = "gainPercent"
    /\ sortDirection = "asc"

\* The number of places of s that hold x.
Occurrences(s, x) == Cardinality({ i \in 1..Len(s) : s[i] = x })

IsPermutationOf(s, t) ==
    /\ Len(s) = Len(t)
    /\ \A i \in 1..Len(t) : Occurrences(s, t[i]) = Occurrences(t, t[i])

\* The order of two rows by the key of `field` as the table states it: the
\* symbol as a string, every other field as a number, 0 when missing.
StatedOrder(a, b, field) ==
    CASE field = "symbol" ->
           LocaleCompare(IF a.security = None THEN <<>> ELSE a.security[1].symbol,
                         IF b.security = None THEN <<>> ELSE b.security[1].symbol)
      [] field = "shares" ->
           Sign((IF a.totalShares = None THEN 0 ELSE a.totalShares[1])
                - (IF b.totalShares = None THEN 0 ELSE b.totalShares[1]))
      [] field = "price" -> Sign(a.currentPrice - b.currentPrice)
      [] field = "cost" ->
           Sign((IF a.averageCost = None THEN 0 ELSE a.averageCost[1])
                - (IF b.averageCost = None THEN 0 ELSE b.averageCost[1]))
      [] field = "value" -> Sign(a.marketValue - b.marketValue)
      [] field = "gain" -> Sign(a.unrealizedGain - b.unrealizedGain)
      [] field = "gainPercent" ->
           SubtractSign(a.unrealizedGainPercent, b.unrealizedGainPercent)

IsOrdered(rs, field, direction) ==
    \A i \in 1..(Len(rs) - 1) :
        IF direction = "asc"
        THEN StatedOrder(rs[i], rs[i + 1], field) <= 0
        ELSE StatedOrder(rs[i], rs[i + 1], field) >= 0

TableTotals(es) ==
    [ value |-> SumSeq([i \in 1..Len(es) |-> es[i].marketValue]),
      cost |-> SumSeq([i \in 1..Len(es) |-> es[i].bookValue]),
      gain |-> SumSeq([i \in 1..Len(es) |-> es[i].unrealizedGain]) ]

SummaryAgrees(s, es) ==
    /\ s.totalValue = TableTotals(es).value
    /\ s.totalCost = TableTotals(es).cost
    /\ s.totalGain = TableTotals(es).gain

\* C20: for every holdings list the dashboard's total value, total cost
\* and total gain are the sums of the market values, book values and
\* unrealized gains HoldingsTable derives for the same list, in the
\* current and in the earlier pair of summary and table.
C20_SummaryMatchesTable ==
    /\ SummaryAgrees(summary, enriched)
    /\ SummaryAgrees(computeSummaryEarlier(holdings), enrichedHoldingsEarlier(holdings))

\* Where the current summary and table do agree: on lists whose holdings
\* all carry the flat fields and no nested price.
C20_AgreeOnFlatHoldings ==
    (\A i \in 1..Len(holdings) : HasFlatPrice(holdings[i]) /\ ~HasNestedPrice(holdings[i]))
      => SummaryAgrees(summary, enriched)

\* ------------------------------------------------------------------------
\* Properties of the combobox's views (SpecSearch)
\* ------------------------------------------------------------------------
\* The search for the input's text has finished loading with an empty list.
SearchCameBackEmpty ==
    /\ Len(query) >= 2
    /\ ~searchIsLoading(searchData, searching, query)
    /\ searchData[query] # None
    /\ searchData[query][1].payload.count = 0

\* C23: when the search for a text of at least 2 characters has finished
\* loading with an empty result list, the combobox shows its no-results
\* state ("No securities found").
C23_NoResultsShown ==
    SearchCameBackEmpty =>
        noResultsShown(isOpen, searchIsLoading(searchData, searching, query), query, results)

\* What the code does instead: the no-results block is never rendered,
\* because the dropdown is open only over a non-empty results list.
C23_NoResultsNeverShown ==
    /\ ~noResultsShown(isOpen, searchIsLoading(searchData, searching, query), query, results)
    /\ isOpen => resultsLength(results) > 0

\* A key or click that the handlers leave without effect.
NoEffect(out, st) == out = [state |-> st, calls |-> <<>>]

\* The state handleSelect leaves.
Cleared(q, rs, open, index) == q = <<>> /\ rs = None /\ ~open /\ index = -1

\* C24: a click on a row, and Enter while the dropdown is open and a row
\* is highlighted, call onSelect exactly once with that row's security and
\* leave an empty query, an empty results list, a closed dropdown and
\* selectedIndex -1; Enter with no highlighted row, and every key while
\* the dropdown is closed, call onSelect zero times and change no state.
C24_Selection ==
    /\ [](LET st == ComboState(query, results, isOpen, selectedIndex)
              highlighted == itemAt(results, selectedIndex)
          IN  /\ \A key \in Keys : ~isOpen => NoEffect(handleKeyDown(key, st), st)
              /\ (isOpen /\ highlighted = None) => NoEffect(handleKeyDown("Enter", st), st)
              /\ (isOpen /\ highlighted # None) =>
                    LET out == handleKeyDown("Enter", st)
                    IN  /\ out.calls = <<highlighted[1]>>
                        /\ Cleared(out.state.query, out.state.results,
                                   out.state.isOpen, out.state.selectedIndex)
              /\ \A i \in 0..(MaxResults - 1) :
                    (isOpen /\ itemAt(results, i) # None) =>
                        LET out == handleSelect(st, itemAt(results, i)[1])
                        IN  /\ out.calls = <<itemAt(results, i)[1]>>
                            /\ Cleared(out.state.query, out.state.results,
                                       out.state.isOpen, out.state.selectedIndex))
    /\ [][selected' # <<>> =>
            /\ isOpen
            /\ \E i \in 0..(MaxResults - 1) :
                  /\ itemAt(results, i) # None
                  /\ selected' = <<itemAt(results, i)[1]>>
            /\ Cleared(query', results', isOpen', selectedIndex')]_vars

\* onSelect was called once, with the second row of a results list, and
\* the combobox is cleared.
C24_Witness ==
    /\ Len(selected) = 1
    /\ selected[1].index = 1
    /\ Cleared(query, results, isOpen, selectedIndex)

\* The dropdown is open over a list shorter than the highlight left by an
\* earlier list: Enter finds no row.
C24_WitnessNoRow ==
    /\ isOpen
    /\ selectedIndex >= resultsLength(results)

\* The dropdown is closed while a row index is still highlighted.
C24_WitnessClosed ==
    /\ ~isOpen
    /\ selectedIndex >= 0
    /\ resultsLength(results) > 0

\* ------------------------------------------------------------------------
\* Properties of the read hooks (SpecHooks)
\* ------------------------------------------------------------------------
\* The parameters the claim requires of a query before it is requested.
StatedParameters(k) ==
    CASE k.hook = "useGetPortfolio" -> k.params[1] # <<>> /\ k.params[2] # <<>>
      [] k.hook = "useSecuritySearch" -> Len(k.params[1]) >= 2
      [] OTHER -> k.params[1] # <<>>

\* C21: no read hook has a request in flight for a query with an empty
\* identifying parameter (userId; userId and portfolioId; id; symbol) or
\* a search text shorter than 2 characters, and a step issues a request
\* for a hook rendered in that step only if its enabled flag is true.
C21_NoRequestWithEmptyParameter ==
    /\ [](\A k \in HookKeys : hookStatus[k] = "fetching" => StatedParameters(k))
    /\ [][\A h \in ReadHooks :
            (/\ hookCalls'[h] # hookCalls[h]
             /\ hookCalls'[h] # None
             /\ hookStatus[observedKey(hookCalls', h)] # "fetching"
             /\ hookStatus'[observedKey(hookCalls', h)] = "fetching")
              => hookCalls'[h][1].enabled]_vars

\* A disabled search hook is mounted on a one-letter text, an enabled hook
\* has its request in flight, and a query is in error.
C21_Witness ==
    /\ hookCalls["useSecuritySearch"] = Some([params |-> << <<"a">> >>, enabled |-> TRUE])
    /\ \E k \in HookKeys : hookStatus[k] = "fetching"
    /\ \E k \in HookKeys : hookStatus[k] = "error"

\* The dashboard without a user id: the default-portfolio hook is mounted
\* with "" while a security query is being refetched.
C21_WitnessEmptyUserId ==
    /\ hookCalls["useGetDefaultPortfolio"] = Some([params |-> << <<>> >>, enabled |-> TRUE])
    /\ \E k \in HookKeys : k.hook \in SecurityHooks /\ hookStatus[k] = "fetching"

\* C22: for every list of portfolios fetched, the data of
\* useGetDefaultPortfolio is the first portfolio flagged isDefault when
\* there is one, otherwise the first portfolio, and null exactly when the
\* list is empty.
C22_DefaultPortfolio ==
    (defaultQuery.portfolios # None /\ defaultQuery.status = "idle") =>
        LET ps == defaultQuery.portfolios[1]
            d == defaultQuery.data[1]
            flagged == {i \in 1..Len(ps) : ps[i].isDefault}
        IN  /\ defaultQuery.data # None
            /\ flagged # {} =>
                  \E i \in flagged : (\A j \in flagged : i <= j) /\ d = Some(ps[i])
            /\ (flagged = {} /\ ps # <<>>) => d = Some(ps[1])
            /\ d = None <=> ps = <<>>

\* A list whose first portfolio is not flagged and whose second and third
\* are: the data is the second.
C22_Witness ==
    /\ defaultQuery.status = "idle"
    /\ defaultQuery.portfolios =
          Some(<< [id |-> "p1", isDefault |-> FALSE], [id |-> "p2", isDefault |-> TRUE],
                  [id |-> "p3", isDefault |-> TRUE] >>)
    /\ defaultQuery.data = Some(Some([id |-> "p2", isDefault |-> TRUE]))

\* The empty list: the data is null.
C22_WitnessEmpty ==
    /\ defaultQuery.portfolios = Some(<<>>)
    /\ defaultQuery.data = Some(None)

\* ------------------------------------------------------------------------
\* Properties of the 401 branch of the response interceptor (SpecClient)
\* ------------------------------------------------------------------------
UnauthorizedResponses ==
    { Some([status |-> 401, data |-> b]) : b \in ResponseBodies }

OnLoginRoute == Includes(pathname, LoginPath)

\* The claim of C1 as it was made: every 401 handled clears the stored
\* token and user record and leaves the document with exactly one redirect
\* to the login route issued, none when the path is the login route
\* already, however many requests come back 401.
C1_Original ==
    [][\A i \in 1..MaxInFlight, r \in UnauthorizedResponses :
         HandleResponse(i, r)
           => /\ token' = None
              /\ userRecord' = None
              /\ IF OnLoginRoute THEN redirects' = redirects
                 ELSE redirects' = 1]_vars

\* C1 (amended): every 401 handled clears the stored token and user
\* record and issues the redirect to the login route once for that
\* response, none when the path contains "/login" already; requests that
\* come back 401 before the navigation commits each issue it again.
C1_UnauthorizedClearsAndRedirects ==
    [][\A i \in 1..MaxInFlight, r \in UnauthorizedResponses :
         HandleResponse(i, r)
           => /\ token' = None
              /\ userRecord' = None
              /\ pathname' = pathname
              /\ IF OnLoginRoute
                 THEN redirects' = redirects /\ navigationPending' = navigationPending
                 ELSE redirects' = redirects + 1 /\ navigationPending']_vars

\* Two requests of one document came back 401 before the navigation
\* committed: storage is cleared and the redirect was issued twice.
C1_Witness ==
    /\ ~OnLoginRoute
    /\ redirects = 2
    /\ navigationPending
    /\ token = None /\ userRecord = None
    /\ lastError # None /\ lastError[1].statusCode = Some(401)

\* A 401 handled on the login route: storage is cleared, nothing is issued.
C1_WitnessOnLogin ==
    /\ OnLoginRoute
    /\ redirects = 0 /\ ~navigationPending
    /\ token = None /\ userRecord = None
    /\ lastError # None /\ lastError[1].statusCode = Some(401)

\* The status code the taxonomy gives a failure: 0 without a response, the
\* response's status otherwise.
StatedStatusCode(response) ==
    IF response = None THEN 0 ELSE response[1].status

\* C11: every failed call is rejected with an error object that carries a
\* non-empty message and a status code; the status code is determined by
\* the response alone: 0 when there is no response (a timeout included),
\* the response's status otherwise (401, 403, 404, 400, any status of 500
\* or above, any other status); the per-field error map is carried in the
\* errors field by a 400 only, and there it is the backend's map.
C11_ErrorTaxonomy ==
    lastFailure # None
      => /\ lastError # None
         /\ LET e == lastError[1]
                r == lastFailure[1].response
            IN  /\ e.message # ""
                /\ e.statusCode = Some(StatedStatusCode(r))
                /\ e.errors # None => e.statusCode = Some(400)
                /\ (r # None /\ r[1].status = 400 /\ r[1].data # None)
                      => e.errors = r[1].data[1].errors

\* A request that hit the timeout was rejected with status code 0.
C11_Witness ==
    /\ lastFailure # None
    /\ lastFailure[1].code = "ECONNABORTED"
    /\ lastError # None /\ lastError[1].statusCode = Some(0)

\* A 400 whose body has field errors was rejected with them.
C11_WitnessValidation ==
    /\ lastFailure # None /\ lastFailure[1].response # None
    /\ lastFailure[1].response[1].status = 400
    /\ lastError # None /\ lastError[1].errors = Some("field errors")

\* A 409 with an empty backend message was rejected as an unclassified
\* failure with the fallback message.
C11_WitnessOther ==
    /\ lastFailure # None /\ lastFailure[1].response # None
    /\ lastFailure[1].response[1].status = 409
    /\ lastFailure[1].response[1].data = Some([message |-> Some(""), errors |-> None])
    /\ lastError # None /\ lastError[1].statusCode = Some(409)

\* C12: a request is sent with the header Authorization: Bearer <token>
\* for the token persisted storage holds when it is sent, and with no
\* Authorization header when storage holds no token; a request already
\* sent keeps the header it was sent with.
C12_BearerHeader ==
    [][SendRequest
         => /\ Len(inFlight') = Len(inFlight) + 1
            /\ SubSeq(inFlight', 1, Len(inFlight)) = inFlight
            /\ LET sent == inFlight'[Len(inFlight')]
               IN  IF token = None
                   THEN sent.authorization = None
                   ELSE sent.authorization = Some(<<"Bearer", token[1]>>)]_vars

\* Two requests are in flight, the first sent with a stored token and the
\* second after the token was removed.
C12_Witness ==
    /\ Len(inFlight) = 2
    /\ inFlight[1].authorization = Some(<<"Bearer", "jwt2">>)
    /\ inFlight[2].authorization = None
    /\ token = None

\* ------------------------------------------------------------------------
\* Properties of findHoldingBySecurityId (SpecLookup)
\* ------------------------------------------------------------------------
HasMatch(hs, securityId) ==
    \E i \in 1..Len(hs) : hs[i].securityId = securityId

\* C13: findHoldingBySecurityId resolves with a holding of the fetched list
\* whose securityId matches when there is one, resolves with null only
\* when the fetch succeeded and no fetched holding matches, and rejects
\* with the fetch's error object when the fetch failed.
C13_NullOnlyWhenNotFound ==
    lookup # None
      => LET l == lookup[1]
         IN  IF l.outcome.ok
             THEN /\ l.result.kind = "resolved"
                  /\ IF HasMatch(l.outcome.data, l.securityId)
                     THEN /\ l.result.value # None
                          /\ l.result.value[1].securityId = l.securityId
                          /\ \E i \in 1..Len(l.outcome.data) :
                                 l.outcome.data[i] = l.result.value[1]
                     ELSE l.result.value = None
             ELSE /\ l.result.kind = "rejected"
                  /\ l.result.error = l.outcome.error

\* What the lookup does with a fetch that succeeded: the first matching
\* holding, or null when none matches.
C13_FoundOrNull ==
    (lookup # None /\ lookup[1].outcome.ok)
      => LET l == lookup[1]
         IN  /\ l.result.kind = "resolved"
             /\ IF HasMatch(l.outcome.data, l.securityId)
                THEN /\ l.result.value # None
                     /\ l.result.value[1].securityId = l.securityId
                ELSE l.result.value = None

\* ------------------------------------------------------------------------
\* Properties of the mutation retry (SpecMutation)
\* ------------------------------------------------------------------------
\* C14: a mutation invocation sends its request at most twice; after its
\* first failed attempt it is waiting to be sent once more and no error is
\* surfaced yet; an error is surfaced only after two attempts failed; an
\* invocation whose first attempt succeeded sent exactly one request.
C14_OneMutationRetry ==
    \A m \in MutationIds :
        LET mu == mutations[m]
        IN  /\ mu.sent <= 2
            /\ mu.status = "retrying"
                 => mu.sent = 1 /\ mu.failures = 1 /\ mu.error = None
            /\ mu.status = "pending" => mu.sent = mu.failures + 1 /\ mu.error = None
            /\ mu.status = "error"
                 => mu.sent = 2 /\ mu.failures = 2 /\ mu.error # None
            /\ mu.status = "success"
                 => mu.sent = mu.failures + 1 /\ mu.error = None

\* One mutation surfaced its error after its retry failed too, another
\* succeeded at its first attempt, a third succeeded at its retry.
C14_Witness ==
    /\ mutations["create"].status = "error" /\ mutations["create"].sent = 2
    /\ mutations["update"].status = "success" /\ mutations["update"].sent = 1
    /\ mutations["delete"].status = "success" /\ mutations["delete"].sent = 2

\* ------------------------------------------------------------------------
\* Properties of the read hooks' fetches (SpecQuery)
\* ------------------------------------------------------------------------
\* The requests of `key` that were sent and not answered yet.
RequestsInFlight(key) ==
    { i \in 1..Len(fetches) : fetches[i].key = key /\ ~fetches[i].waiting }

CurrentFetches(key) ==
    { i \in 1..Len(fetches) : fetches[i].key = key /\ ~fetches[i].abandoned }

\* The claim of C15 as it was made: for every read key at most one request
\* is in flight at any time.
C15_Original ==
    \A key \in ReadKeys : Cardinality(RequestsInFlight(key)) <= 1

\* C15 (amended): for every read key at most one fetch is the key's fetch,
\* which all concurrent reads of the key share; a request superseded by a
\* refetch may still be in flight next to it, and its response never
\* changes the cached data.
C15_OneCurrentFetchPerKey ==
    /\ [](\A key \in ReadKeys : Cardinality(CurrentFetches(key)) <= 1)
    /\ [][\A i \in 1..MaxFetches :
             (FetchResolves(i) /\ fetches[i].abandoned) => queryData' = queryData]_vars

\* Two components read the list key and share its one fetch, whose
\* superseded predecessor is still in flight, while the default key's
\* fetch is in flight too.
C15_Witness ==
    /\ observers[portfolioKeysList(UserId)] = 2
    /\ Cardinality(CurrentFetches(portfolioKeysList(UserId))) = 1
    /\ Cardinality(RequestsInFlight(portfolioKeysList(UserId))) = 2
    /\ Cardinality(RequestsInFlight(portfolioKeysDefault(UserId))) = 1

\* ------------------------------------------------------------------------
\* Properties of the security search dropdown (SpecSearch)
\* ------------------------------------------------------------------------
\* C16: the results the dropdown holds were returned for the text the
\* input has now, and a response to the search for another text leaves
\* the results, the dropdown and the cached data of the present text as
\* they are, in whatever order responses arrive.
C16_ResultsMatchQuery ==
    /\ [](results # None => results[1].for = query)
    /\ [][\A q \in SearchTexts, count \in 0..MaxResults :
             (SearchResponse(q, count) /\ q # query)
               => /\ results' = results
                  /\ isOpen' = isOpen
                  /\ searchData'[query] = searchData[query]]_vars

\* The response to the superseded search for "aa" arrived while the input
\* read "ab"; the dropdown shows the results for "ab".
C16_Witness ==
    /\ query = <<"a", "b">>
    /\ searchData[<<"a", "a">>] # None
    /\ searchData[<<"a", "a">>][1].during = <<"a", "b">>
    /\ results = Some(SearchPayload(<<"a", "b">>, 1))
    /\ isOpen

\* ------------------------------------------------------------------------
\* Properties of ProtectedRoute and initializeAuth (SpecAuth)
\* ------------------------------------------------------------------------
\* C17: ProtectedRoute rendered its children only when isAuthenticated was
\* true and isLoading false; with isLoading false and isAuthenticated
\* false it returned the redirect to the login route that records the
\* attempted location; with isLoading true it returned neither.
C17_ProtectedRouteGuards ==
    routeView # None
      => LET v == routeView[1]
         IN  /\ v.view.kind = "children" => (v.isAuthenticated /\ ~v.isLoading)
             /\ (~v.isLoading /\ ~v.isAuthenticated)
                  => /\ v.view.kind = "navigate"
                     /\ v.view.to = Some(LoginPath)
                     /\ v.view.from = Some(v.location)
             /\ v.isLoading => v.view.kind \notin {"children", "navigate"}

\* ProtectedRoute redirected a visitor without a user from the dashboard.
C17_Witness ==
    /\ routeView # None
    /\ ~routeView[1].isAuthenticated /\ ~routeView[1].isLoading
    /\ routeView[1].view.kind = "navigate"
    /\ routeView[1].view.from = Some(DashboardPath)
    /\ pathname = LoginPath

\* ProtectedRoute rendered neither while the context was loading.
C17_WitnessLoading ==
    /\ routeView # None
    /\ routeView[1].isLoading /\ ~routeView[1].isAuthenticated
    /\ routeView[1].view.kind = "loading"

\* C18: initializeAuth puts a user into auth state only if persisted
\* storage holds both a token and a saved user record, and then it is the
\* parsed record; if parsing the saved user fails, token and user record
\* are removed from storage and the user stays null; the loading flag is
\* false when it has finished.
C18_InitializeAuth ==
    [][initializeAuth
         => /\ isLoading' = FALSE
            /\ user' # None
                 => /\ token # None /\ userRecord # None
                    /\ JsonParse(userRecord[1]).ok
                    /\ user' = JsonParse(userRecord[1]).value
            /\ (token # None /\ userRecord # None /\ ~JsonParse(userRecord[1]).ok)
                 => /\ token' = None /\ userRecord' = None
                    /\ user' = None
            /\ (token # None /\ userRecord = Some("user")) => user' = Some("user")]_vars

\* initializeAuth found a token and a saved user that is not JSON.
C18_Witness ==
    /\ authInit = "cleared"
    /\ token = None /\ userRecord = None
    /\ user = None /\ ~isLoading

\* initializeAuth restored the saved user.
C18_WitnessRestored ==
    /\ authInit = "restored"
    /\ token # None /\ userRecord = Some("user")
    /\ user = Some("user") /\ ~isLoading

\* ------------------------------------------------------------------------
\* Properties of the routes (SpecRoutes)
\* ------------------------------------------------------------------------
\* No user is signed in and the mount effect has none to restore.
Unauthenticated ==
    /\ user = None
    /\ authInit = "pending" =>
          ~(shouldRestore(token, userRecord) /\ JsonParse(userRecord[1]).value # None)

\* The redirects still ahead of a path, at most.
RedirectRank(path) ==
    IF path \in {LoginPath, RegisterPath} THEN 0
    ELSE IF path = DashboardPath THEN 1
    ELSE 2

\* C25: the root path and an unmatched path redirect to the dashboard
\* route; for an unauthenticated user the navigation then reaches the
\* login page and stays there; every redirect lowers the number of
\* redirects that can follow, so the redirects are finitely many and form
\* no cycle.
C25_RedirectsSettleOnLogin ==
    /\ [][(pathname \in {HomePath, PortfoliosPath} /\ pathname' # pathname)
             => pathname' = DashboardPath]_vars
    /\ \A path \in {HomePath, PortfoliosPath} :
          (pathname = path) ~> (pathname = DashboardPath)
    /\ (Unauthenticated /\ pathname \in {HomePath, PortfoliosPath, DashboardPath})
          ~> (pathname = LoginPath)
    /\ [][pathname' # pathname => RedirectRank(pathname') < RedirectRank(pathname)]_vars

\* An unauthenticated visitor has arrived at the login page, sent there
\* by ProtectedRoute from the dashboard route.
C25_Witness ==
    /\ Unauthenticated
    /\ authInit = "skipped"
    /\ pathname = LoginPath
    /\ routeView # None
    /\ routeView[1].view.kind = "navigate"
    /\ routeView[1].view.from = Some(DashboardPath)

\* A document was loaded while storage holds a token and the record of a
\* user, and the mount effect has not run yet.
LoadedWithSession ==
    /\ authInit = "pending"
    /\ token # None
    /\ userRecord = Some("user")

\* C26: a user whose token and user record are both persisted and who
\* loads the protected route directly is never redirected to the login
\* route: ProtectedRoute does not see isLoading false with
\* isAuthenticated false before initializeAuth has restored the user.
C26_RestoredUserStaysOnRoute ==
    /\ []((LoadedWithSession /\ pathname = DashboardPath) => [](pathname # LoginPath))
    /\ [][(LoadedWithSession /\ routeView' # routeView)
             => ~(~routeView'[1].isLoading /\ ~routeView'[1].isAuthenticated)]_vars

\* What does hold: once initializeAuth has restored the user,
\* ProtectedRoute renders its children.
C26_NoRedirectAfterRestore ==
    [][(authInit = "restored" /\ user # None /\ routeView' # routeView)
         => routeView'[1].view.kind = "children"]_vars

\* ------------------------------------------------------------------------
\* Properties of the portfolio mutation hooks (SpecCache)
\* ------------------------------------------------------------------------

\* C2: right after a successful portfolio write (create, update, delete,
\* set-default) the user's list entry, the detail entry of the written
\* portfolio and the user's default entry are not fresh, and neither is the
\* detail entry of a portfolio the write deleted or whose isDefault flag it
\* changed.
C2_WritesInvalidateAffectedKeys ==
    lastWrite # None
      => LET w == lastWrite[1]
         IN  /\ cache[portfolioKeysList(UserId)] # "fresh"
             /\ cache[portfolioKeysDefault(UserId)] # "fresh"
             /\ cache[portfolioKeysDetail(UserId, w.portfolioId)] # "fresh"
             /\ \A q \in w.affected :
                    cache[portfolioKeysDetail(UserId, q)] # "fresh"

\* The part of C2 the hooks do establish: list and default entry are not
\* fresh after any write, nor is the detail entry after an update.
C2_ListAndDefaultInvalidated ==
    lastWrite # None
      => LET w == lastWrite[1]
         IN  /\ cache[portfolioKeysList(UserId)] # "fresh"
             /\ cache[portfolioKeysDefault(UserId)] # "fresh"
             /\ w.op = "update"
                  => cache[portfolioKeysDetail(UserId, w.portfolioId)] # "fresh"

====
